---------------------------- MODULE Spec2Model ----------------------------
(***************************************************************************)
(* Input-to-event normalisation layer of the musical instrument sandbox:   *)
(* the InputManager (adapter lifecycle registry + event bus) and its input *)
(* adapters (keyboard, pointer, MIDI-in, hand tracking).                   *)
(*                                                                         *)
(* The module holds several specifications over one set of variables:      *)
(*   Spec      the InputManager lifecycle: enableInput / disableInput /    *)
(*             disableAll, the adapters' listener registrations, and the   *)
(*             hardware events that reach registered handlers;             *)
(*   SpecBus   the event bus: addEventListener / removeEventListener /     *)
(*             emitMusicalEvent with listeners that change the list;       *)
(*   SpecKeyboard  one KeyboardInput adapter under keydown, keyup and blur *)
(*             events, for each of its three layouts;                      *)
(*   SpecPointer   one MouseInput adapter under mouse and touch events,    *)
(*             for each of its three modes;                                *)
(*   SpecMidi  MidiInput.handleMidiMessage on messages of any length;      *)
(*   SpecHand  one MediaPipeInput adapter under frame results and cleanup; *)
(*   SpecOutput    the AudioOutputManager: setOutput, loadOutput and the   *)
(*             play calls;                                                 *)
(*   SpecMidiOut   one MidiOutput engine: init, selectDevice, the note     *)
(*             calls and the timers of playNote (SpecMidiOutFair: with the *)
(*             timer clock running and due timers run);                    *)
(*   SpecMath  MusicMath.map;                                              *)
(*   SpecTeardown  adapter objects used directly: constructed, initialised *)
(*             step by step, and cleaned up in every state of that.        *)
(* Each specification leaves the variables of the others at their initial  *)
(* values.                                                                 *)
(***************************************************************************)
EXTENDS Integers, Sequences, FiniteSets, TLC

VARIABLES
    \* ---- InputManager (src/unnamed/part_000:221-321) ----
    activeInputs,   \* this.activeInputs: a JS Set, kept as its insertion-ordered entry list
    inputModules,   \* this.inputModules: own properties of the object literal -> Null | instance id
    inst,           \* every adapter object constructed so far (instance id = position)
    registered,     \* DOM listener registrations <<instance, target, event>> (addEventListener)
    stateHandler,   \* instances whose closure is the onstatechange of their MIDIAccess object
    portHandler,    \* <<instance, port>>: the instance's closure is that port's onmidimessage
    ports,          \* MIDI input ports currently connected to the host
    host,           \* what the page provides: navigator.requestMIDIAccess, the Hands global
    fired,          \* instances whose event-emitting handler the last hardware event invoked
    last,           \* the last call: what it was, the manager state before it, its outcome
    \* ---- the event bus: InputManager as an EventTarget (part_000:221, 304-306) ----
    eventListeners, \* event type -> the EventTarget's listener list for it, in registration order
    delivery,       \* the last emitMusicalEvent: type, list at the call, what the listeners did, who was invoked
    \* ---- one KeyboardInput adapter (part_000:12-196) ----
    layout,         \* this.layout, fixed at construction
    keysPressed,    \* this.keysPressed: a JS Set, kept as its insertion-ordered entry list
    emitted,        \* the events the last handler passed to emitMusicalEvent, in order
    kbEvent,        \* the last DOM event handled: name, e.key, modifier held, e.target.tagName
    heldBefore,     \* keysPressed as it was when that event arrived
    run,            \* per key, since its last keyup (or the last blur): unfiltered keydowns, on-events emitted
    listening,      \* the adapter's three listeners are registered (until cleanup())
    sounding,       \* keys whose latest emitted note event is a note-on
    outOfTurn,      \* keys for which the last handler emitted a note-on while sounding or a note-off while not
    \* ---- one MouseInput adapter (src/js/input/mouse.js) ----
    mouse,          \* the adapter's fields: mode, minNote, maxNote, isPressed
    ptrEmitted,     \* the events the last handler passed to emitMusicalEvent, in order
    ptrEvent,       \* the last DOM event handled: name, clientX, clientY, touches
    pointerDown,    \* the latest press or release event handled was a press
    downBefore,     \* pointerDown as it was when the last event arrived
    \* ---- MidiInput.handleMidiMessage (src/js/input/midi.js:102-143) ----
    midiData,       \* message.data of the last message handled: a sequence of bytes
    midiEmitted,    \* the events the handler passed to emitMusicalEvent for it
    \* ---- one MediaPipeInput adapter processing frames (src/js/input/mediapipe.js) ----
    handCfg,        \* this.config: lineY, triggerMode, fingerTips, minNote, maxNote
    previousPositions, \* this.previousPositions: fingertip index -> last stored y, or undefined
    handFrame,      \* results.multiHandLandmarks of the last frame
    prevBefore,     \* previousPositions as it was when that frame arrived
    handEmitted,    \* the events onResults passed to emitMusicalEvent for that frame
    handObj,        \* the adapter's handles: camera, hands, the three elements, the two contexts
    handLast,       \* the last thing that happened to the adapter, whether it raised, whether cleanup() has run
    \* ---- AudioOutputManager (src/js/input/mediapipe.js:803-995) ----
    outputs,        \* this.outputs: output type -> Null | the engine object loaded for it
    currentOutput,  \* this.currentOutput
    currentConfig,  \* this.currentConfig: the config object of a call, and what it holds
    pendingSet,     \* setOutput and loadOutput calls that are waiting at an await
    forwarded,      \* engine methods the last playNote / triggerNote / releaseNote call invoked
    outLast,        \* the last call on the output manager and how it ended
    \* ---- one MidiOutput engine (src/js/audio/midi-output.js) ----
    outputDevice,   \* this.outputDevice: Null | the id of the output port it sends to
    activeNotes,    \* this.activeNotes
    outAccess,      \* this.midiAccess is set
    outHost,        \* the host: has requestMIDIAccess, and the output ports it lists
    outPending,     \* init() and selectDevice() calls waiting for requestMIDIAccess()
    outTimers,      \* the deferred calls playNote made with setTimeout that have not run
    outSent,        \* what the last step sent: <<port, message>> in order
    midiOutLast,    \* the last thing that happened to the engine
    \* ---- MusicMath.map (src/js/utils/math.js:20-28) ----
    mapArgs,        \* the arguments of a call of map
    mapResult       \* what the call returned

mgrVars == <<activeInputs, inputModules, inst, registered, stateHandler,
             portHandler, ports, host, fired, last>>

busVars == <<eventListeners, delivery>>

kbVars == <<layout, keysPressed, emitted, kbEvent, heldBefore, run, listening, sounding, outOfTurn>>

ptrVars == <<mouse, ptrEmitted, ptrEvent, pointerDown, downBefore>>

midiVars == <<midiData, midiEmitted>>

handVars == <<handCfg, previousPositions, handFrame, prevBefore, handEmitted,
              handObj, handLast>>

outVars == <<outputs, currentOutput, currentConfig, pendingSet, forwarded, outLast>>

midiOutVars == <<outputDevice, activeNotes, outAccess, outHost, outPending,
                 outTimers, outSent, midiOutLast>>

mathVars == <<mapArgs, mapResult>>

\* the variables of the InputManager, bus, keyboard and pointer specifications
coreVars == <<mgrVars, busVars, kbVars, ptrVars>>

\* the variables of the decoder, hand-tracking, output and map specifications
extVars == <<midiVars, handVars, outVars, midiOutVars, mathVars>>

vars == <<coreVars, extVars>>

----------------------------------------------------------------------------
(* Bounds of the model *)

\* adapter objects constructed in one run (enableInput calls that reach a constructor)
MaxInst == 2
\* MIDI input ports the host can present
MaxPorts == 1
\* listener callbacks the application registers on the manager
MaxListeners == 3
\* keys held down at the same time
MaxHeld == 2
\* unfiltered keydown events for one key without a keyup in between (auto-repeat)
MaxRepeat == 2
\* setOutput calls made on the output manager in one run
MaxCalls == 3
\* window.innerWidth and window.innerHeight, in pixels
ViewportWidth == 4
ViewportHeight == 5

Ports == 1..MaxPorts

----------------------------------------------------------------------------
(* JavaScript values and containers *)

\* the null stored in an empty adapter slot
Null == 0
\* the result of reading a property that is neither own nor inherited
Undefined == -1
\* an inherited property of a plain object (Object.prototype.constructor): a
\* function object, truthy, with no cleanup property
ProtoFunction == -2

\* property names every object literal inherits from Object.prototype
ProtoProps == {"constructor"}

Kinds == {"mouse", "keyboard", "midi", "mediapipe"}

\* the strings the callers pass as `type`: the four kinds, a name that is no
\* property at all, and a name that is an inherited property
TypeArgs == Kinds \cup {"sampler", "constructor"}

Layouts == {"piano", "drumpad", "chromatic"}
Modes == {"trigger", "continuous", "xy-pad"}

Range(s) == {s[n] : n \in DOMAIN s}

\* obj[key] on a plain object: own property, else the prototype's, else undefined
Lookup(obj, key) ==
    IF key \in DOMAIN obj THEN obj[key]
    ELSE IF key \in ProtoProps THEN ProtoFunction
    ELSE Undefined

\* if (v): null and undefined are falsy, an object is truthy
Truthy(v) == v /= Null /\ v /= Undefined

\* obj[key] = val: creates the own property when it is not one yet
Assign(obj, key, val) ==
    [k \in DOMAIN obj \cup {key} |-> IF k = key THEN val ELSE obj[k]]

\* Set.prototype.add: appended at the end unless present
SetAdd(s, x) == IF x \in Range(s) THEN s ELSE Append(s, x)

\* Set.prototype.delete
SetDelete(s, x) == SelectSeq(s, LAMBDA y : y /= x)

----------------------------------------------------------------------------
(* Adapter objects *)

\* KeyboardInput.setupListeners: the addEventListener calls
KeyboardRegistered ==
    {<<"document", "keydown">>, <<"document", "keyup">>, <<"window", "blur">>}

\* a this.listeners array that omits the blur registration
KeyboardListenersNoBlur ==
    << <<"document", "keydown">>, <<"document", "keyup">> >>

\* KeyboardInput.setupListeners: what it stores in this.listeners for cleanup
KeyboardListeners ==
    << <<"document", "keydown">>, <<"document", "keyup">>, <<"window", "blur">> >>

\* MouseInput.setup*Mode: the addEventListener calls on the container, per mode;
\* an unknown mode registers nothing
MouseRegistered(mode) ==
    CASE mode = "trigger" ->
            {<<"container", "click">>, <<"container", "touchstart">>}
      [] mode = "continuous" ->
            {<<"container", "mousedown">>, <<"container", "mousemove">>,
             <<"container", "mouseup">>, <<"container", "touchstart">>,
             <<"container", "touchmove">>, <<"container", "touchend">>}
      [] mode = "xy-pad" ->
            {<<"container", "mousemove">>, <<"container", "touchmove">>,
             <<"container", "mousedown">>, <<"container", "mouseup">>,
             <<"container", "touchstart">>, <<"container", "touchend">>}
      [] OTHER -> {}

\* MouseInput.setup*Mode: what each mode pushes onto this.listeners
MouseListeners(mode) ==
    CASE mode = "trigger" ->
            << <<"container", "click">>, <<"container", "touchstart">> >>
      [] mode = "continuous" ->
            << <<"container", "mousedown">>, <<"container", "mousemove">>,
               <<"container", "mouseup">>, <<"container", "touchstart">>,
               <<"container", "touchmove">>, <<"container", "touchend">> >>
      [] mode = "xy-pad" ->
            << <<"container", "mousemove">>, <<"container", "touchmove">>,
               <<"container", "mousedown">>, <<"container", "mouseup">>,
               <<"container", "touchstart">>, <<"container", "touchend">> >>
      [] OTHER -> << >>

\* the keyboard, focus, mouse and touch events the browser can dispatch
DomEvents == KeyboardRegistered \cup MouseRegistered("trigger")
                \cup MouseRegistered("continuous")

\* a freshly constructed adapter object, before any listener or hardware is attached
NewAdapter(kind, cfg) ==
    [kind |-> kind, cfg |-> cfg, listeners |-> << >>,
     midiAccess |-> FALSE, connectedInputs |-> {},
     hands |-> FALSE, camera |-> FALSE, surfaces |-> {},
     phase |-> "constructed"]

\* no call has thrown
NoError == "none"

\* what the host rejects a request with (permission denied, no camera)
HostRejection == "rejection by the host"

\* a method was called on null
TypeError == "TypeError"

\* the manager-side state the operations transform
St ==
    [activeInputs |-> activeInputs, inputModules |-> inputModules, inst |-> inst,
     registered |-> registered, stateHandler |-> stateHandler,
     portHandler |-> portHandler, cleanups |-> 0, threw |-> FALSE, made |-> 0,
     error |-> NoError]

\* new KeyboardInput(manager, config): constructor + setupListeners
NewKeyboardInput(st, cfg) ==
    LET i == Len(st.inst) + 1
        a == [NewAdapter("keyboard", cfg) EXCEPT !.listeners = KeyboardListeners,
                                                 !.phase = "ready"]
    IN [st EXCEPT !.inst = Append(@, a),
                  !.registered = @ \cup {<<i, l[1], l[2]>> : l \in KeyboardRegistered},
                  !.made = i]

\* new MouseInput(manager, config): constructor + setupListeners
NewMouseInput(st, cfg) ==
    LET i == Len(st.inst) + 1
        a == [NewAdapter("mouse", cfg) EXCEPT !.listeners = MouseListeners(cfg),
                                              !.phase = "ready"]
    IN [st EXCEPT !.inst = Append(@, a),
                  !.registered = @ \cup {<<i, l[1], l[2]>> : l \in MouseRegistered(cfg)},
                  !.made = i]

\* KeyboardInput.cleanup / MouseInput.cleanup: remove what this.listeners names
ListenerCleanup(st, i) ==
    [st EXCEPT !.registered = @ \ {<<i, l[1], l[2]>> : l \in Range(st.inst[i].listeners)},
               !.inst[i].listeners = << >>,
               !.inst[i].phase = "cleaned",
               !.cleanups = @ + 1]

\* MidiInput.cleanup: null the handler of every port in connectedInputs
MidiCleanup(st, i) ==
    IF st.inst[i].midiAccess
    THEN [st EXCEPT !.portHandler = @ \ {<<i, p>> : p \in st.inst[i].connectedInputs},
                    !.inst[i].connectedInputs = {},
                    !.inst[i].phase = "cleaned",
                    !.cleanups = @ + 1]
    ELSE [st EXCEPT !.inst[i].phase = "cleaned", !.cleanups = @ + 1]

\* MediaPipeInput.cleanup: stop the camera, close the tracker, remove the surfaces
MediaPipeCleanup(st, i) ==
    [st EXCEPT !.inst[i].camera = FALSE,
               !.inst[i].hands = FALSE,
               !.inst[i].surfaces = {},
               !.inst[i].phase = "cleaned",
               !.cleanups = @ + 1]

\* adapter.cleanup(), by the adapter's class
Cleanup(st, i) ==
    CASE st.inst[i].kind \in {"keyboard", "mouse"} -> ListenerCleanup(st, i)
      [] st.inst[i].kind = "midi" -> MidiCleanup(st, i)
      [] st.inst[i].kind = "mediapipe" -> MediaPipeCleanup(st, i)


----------------------------------------------------------------------------
(* InputManager operations, as transformers of the manager-side state *)

\* the document surfaces MediaPipeInput creates (createVideoElement, createOverlay)
Surfaces == {"videoElement", "videoCanvas", "canvasElement"}

\* what MidiInput.init rejects with, by the point it fails at: its test for
\* requestMIDIAccess, the access request, or the count of input ports
MidiInitFailureGeneric(at) == "Failed to access MIDI devices"

MidiInitFailure(at) ==
    CASE at = "api" -> "Web MIDI API not supported in this browser"
      [] at = "request" -> HostRejection
      [] at = "ports" -> "No MIDI devices detected"

\* MidiInput.create up to its first suspension: the constructor, then init()
\* throws when the host has no requestMIDIAccess, else awaits the access request
MidiCreate(st, cfg) ==
    LET i == Len(st.inst) + 1
        a == NewAdapter("midi", cfg)
    IN IF ~host.midiApi
       THEN [st EXCEPT !.inst = Append(@, [a EXCEPT !.phase = "failed"]),
                       !.threw = TRUE, !.made = i,
                       !.error = MidiInitFailure("api")]
       ELSE [st EXCEPT !.inst = Append(@, [a EXCEPT !.phase = "pending"]),
                       !.made = i]

\* MediaPipeInput.create up to its first suspension: the constructor, then init()
\* up to `await this.camera.start()`; every throw inside runs cleanup() first
MediaPipeCreate(st, cfg) ==
    LET i == Len(st.inst) + 1
        a == NewAdapter("mediapipe", cfg)
        fresh == [st EXCEPT !.inst = Append(@, a), !.made = i]
        withSurfaces == [fresh EXCEPT !.inst[i].surfaces = Surfaces,
                                      !.inst[i].hands = TRUE]
    IN IF ~host.handsLib
       THEN [MediaPipeCleanup(fresh, i) EXCEPT
               !.inst[i].phase = "failed", !.threw = TRUE,
               !.error = "MediaPipe Hands library not loaded"]
       ELSE [withSurfaces EXCEPT !.inst[i].camera = TRUE,
                                 !.inst[i].phase = "pending"]

\* a tail of enableInput that assigns the slot and adds no kind
ActivateSlotOnly(st, type, i) ==
    [st EXCEPT !.inputModules = Assign(@, type, i),
               !.inst[i].phase = "ready"]

\* the tail of enableInput's try block: the slot is assigned, the kind added
Activate(st, type, i) ==
    [st EXCEPT !.inputModules = Assign(@, type, i),
               !.activeInputs = SetAdd(@, type),
               !.inst[i].phase = "ready"]

\* enableInput(type, config) up to its return, its throw, or its first await
EnableInputF(st, type, cfg) ==
    CASE type = "mouse" ->
            LET r == NewMouseInput(st, cfg) IN Activate(r, type, r.made)
      [] type = "keyboard" ->
            LET r == NewKeyboardInput(st, cfg) IN Activate(r, type, r.made)
      [] type = "midi" -> MidiCreate(st, cfg)
      [] type = "mediapipe" -> MediaPipeCreate(st, cfg)
      [] OTHER -> [st EXCEPT !.threw = TRUE, !.error = "Unknown input type"]

\* disableInput(type)
DisableInputF(st, type) ==
    LET m == Lookup(st.inputModules, type)
    IN IF Truthy(m)
       THEN LET cleaned == IF m \in DOMAIN st.inst THEN Cleanup(st, m) ELSE st
            IN [cleaned EXCEPT !.inputModules = Assign(@, type, Null),
                               !.activeInputs = SetDelete(@, type)]
       ELSE st

\* for (const type of this.activeInputs): the Set iterator walks the entry list
\* by position; a deleted entry becomes an empty slot that is skipped, and the
\* entries after it keep their positions
RECURSIVE SetIterate(_, _, _)
SetIterate(st, entries, n) ==
    IF n > Len(entries) THEN st
    ELSE IF entries[n] \in Range(st.activeInputs)
         THEN SetIterate(DisableInputF(st, entries[n]), entries, n + 1)
         ELSE SetIterate(st, entries, n + 1)

\* a loop over the live entry list by index: a deletion shifts the later entries
\* down, so the entry after a deleted one is skipped
RECURSIVE IndexIterate(_, _)
IndexIterate(st, n) ==
    IF n > Len(st.activeInputs) THEN st
    ELSE IndexIterate(DisableInputF(st, st.activeInputs[n]), n + 1)

DisableAllByIndex(st) == IndexIterate(st, 1)

\* disableAll()
DisableAllF(st) == SetIterate(st, st.activeInputs, 1)

----------------------------------------------------------------------------
(* The event bus: InputManager extends EventTarget *)

\* the event type whose listener list is followed (each type has its own list)
EventTypes == {"note-on"}
ListenerIds == 1..MaxListeners

\* what a listener callback does to the listener list of the dispatched type
\* while it runs: nothing, addEventListener(type, l) or removeEventListener(type, l)
NoMutation == <<"none", 0>>
Mutations ==
    {NoMutation} \cup {<<"add", l>> : l \in ListenerIds}
                 \cup {<<"remove", l>> : l \in ListenerIds}

\* what the callbacks of one dispatch do: at most two of them change the list
Scripts ==
    {[l \in ListenerIds |-> IF l = a THEN ma ELSE IF l = b THEN mb ELSE NoMutation] :
        a \in ListenerIds, b \in ListenerIds, ma \in Mutations, mb \in Mutations}

\* EventTarget.addEventListener: a callback already in the list is not added again
AddListener(list, l) == IF l \in Range(list) THEN list ELSE Append(list, l)

\* EventTarget.removeEventListener
RemoveListener(list, l) == SelectSeq(list, LAMBDA m : m /= l)

ApplyMutation(list, m) ==
    CASE m[1] = "add" -> AddListener(list, m[2])
      [] m[1] = "remove" -> RemoveListener(list, m[2])
      [] OTHER -> list

\* EventTarget dispatch, inner invoke: the callbacks of the clone run in order;
\* an entry removed since the dispatch began (its removed flag is set) is not
\* run, an entry added since is not in the clone
RECURSIVE InvokeClone(_, _, _, _, _, _)
InvokeClone(clone, n, cur, gone, script, out) ==
    IF n > Len(clone) THEN [list |-> cur, delivered |-> out]
    ELSE IF clone[n] \in gone
         THEN InvokeClone(clone, n + 1, cur, gone, script, out)
         ELSE LET m == script[clone[n]]
                  nowGone == IF m[1] = "remove" /\ m[2] \in Range(cur)
                             THEN gone \cup {m[2]} ELSE gone
              IN InvokeClone(clone, n + 1, ApplyMutation(cur, m), nowGone, script,
                             Append(out, clone[n]))

\* this.dispatchEvent(new CustomEvent(eventType, {detail})): synchronous
DispatchEvent(list, script) == InvokeClone(list, 1, list, {}, script, << >>)

\* application code calls manager.addEventListener(type, l)
AddEventListener(type, l) ==
    /\ eventListeners' = [eventListeners EXCEPT ![type] = AddListener(@, l)]
    /\ delivery' = [delivery EXCEPT !.type = "none", !.atCall = << >>,
                                    !.delivered = << >>,
                                    !.script = [x \in ListenerIds |-> NoMutation]]
    /\ UNCHANGED <<mgrVars, kbVars, ptrVars, extVars>>

\* application code calls manager.removeEventListener(type, l)
RemoveEventListener(type, l) ==
    /\ eventListeners' = [eventListeners EXCEPT ![type] = RemoveListener(@, l)]
    /\ delivery' = [delivery EXCEPT !.type = "none", !.atCall = << >>,
                                    !.delivered = << >>,
                                    !.script = [x \in ListenerIds |-> NoMutation]]
    /\ UNCHANGED <<mgrVars, kbVars, ptrVars, extVars>>

\* an adapter calls emitMusicalEvent(type, data); script is what each listener
\* callback does to the list when it is invoked
EmitMusicalEvent(type, script) ==
    /\ LET r == DispatchEvent(eventListeners[type], script)
       IN /\ eventListeners' = [eventListeners EXCEPT ![type] = r.list]
          /\ delivery' = [type |-> type, script |-> script,
                          delivered |-> r.delivered, atCall |-> eventListeners[type]]
    /\ UNCHANGED <<mgrVars, kbVars, ptrVars, extVars>>

----------------------------------------------------------------------------
(* The keyboard adapter *)

\* this.layouts.piano
PianoLayout ==
    [k \in {"z", "x", "c", "v", "b", "n", "m", ",", "s", "d", "g", "h", "j",
            "q", "w", "e", "r", "t", "y", "u", "i", "2", "3", "5", "6", "7"} |->
        CASE k = "z" -> 48 [] k = "x" -> 50 [] k = "c" -> 52 [] k = "v" -> 53
          [] k = "b" -> 55 [] k = "n" -> 57 [] k = "m" -> 59 [] k = "," -> 60
          [] k = "s" -> 49 [] k = "d" -> 51 [] k = "g" -> 54 [] k = "h" -> 56
          [] k = "j" -> 58
          [] k = "q" -> 60 [] k = "w" -> 62 [] k = "e" -> 64 [] k = "r" -> 65
          [] k = "t" -> 67 [] k = "y" -> 69 [] k = "u" -> 71 [] k = "i" -> 72
          [] k = "2" -> 61 [] k = "3" -> 63 [] k = "5" -> 66 [] k = "6" -> 68
          [] k = "7" -> 70]

\* this.layouts.drumpad
DrumpadLayout ==
    [k \in {"q", "w", "e", "r", "a", "s", "d", "f",
            "z", "x", "c", "v", "1", "2", "3", "4"} |->
        CASE k = "q" -> 0 [] k = "w" -> 1 [] k = "e" -> 2 [] k = "r" -> 3
          [] k = "a" -> 4 [] k = "s" -> 5 [] k = "d" -> 6 [] k = "f" -> 7
          [] k = "z" -> 8 [] k = "x" -> 9 [] k = "c" -> 10 [] k = "v" -> 11
          [] k = "1" -> 12 [] k = "2" -> 13 [] k = "3" -> 14 [] k = "4" -> 15]

\* this.layouts.chromatic
ChromaticLayout ==
    [k \in {"a", "s", "d", "f", "g", "h", "j", "k", "l", ";", "'", "z", "x"} |->
        CASE k = "a" -> 0 [] k = "s" -> 1 [] k = "d" -> 2 [] k = "f" -> 3
          [] k = "g" -> 4 [] k = "h" -> 5 [] k = "j" -> 6 [] k = "k" -> 7
          [] k = "l" -> 8 [] k = ";" -> 9 [] k = "'" -> 10 [] k = "z" -> 11
          [] k = "x" -> 12]

\* this.layouts[name]
LayoutTable(name) ==
    CASE name = "piano" -> PianoLayout
      [] name = "drumpad" -> DrumpadLayout
      [] name = "chromatic" -> ChromaticLayout

\* the e.key values the keyboard events carry: a key of the piano table only,
\* one of the chromatic table only, one of piano and drumpad, one of drumpad
\* and chromatic, one of all three tables, one of none, and an upper-case
\* letter (Shift or Caps Lock held)
Keys == {",", ";", "q", "a", "s", "p", "Q"}

\* e.key.toLowerCase()
ToLowerCase(k) ==
    CASE k = "Q" -> "q"
      [] OTHER -> k

LowerKeys == {ToLowerCase(k) : k \in Keys}

\* which of e.ctrlKey, e.metaKey, e.altKey is set on the event, if any
Modifiers == {"none", "ctrl", "meta", "alt"}

\* e.target.tagName
TagNames == {"BODY", "INPUT", "TEXTAREA"}

\* the velocity 0.7 of every keyboard event, as numerator and denominator
KeyVelocity == <<7, 10>>

\* a keydown handler with no auto-repeat check
HandleKeyDownNoRepeatCheck(kb, lay, e) ==
    LET key == ToLowerCase(e.key)
    IN IF e.tag \in {"INPUT", "TEXTAREA"} THEN [kb EXCEPT !.emitted = << >>]
       ELSE IF e.mod /= "none" THEN [kb EXCEPT !.emitted = << >>]
       ELSE IF key \in DOMAIN LayoutTable(lay)
       THEN [keysPressed |-> SetAdd(kb.keysPressed, key),
             emitted |-> << [key |-> key,
                             type |-> IF lay = "drumpad" THEN "trigger" ELSE "note-on",
                             note |-> LayoutTable(lay)[key], velocity |-> KeyVelocity] >>]
       ELSE [kb EXCEPT !.emitted = << >>]

\* a keydown handler that records the key before it looks the key up
HandleKeyDownAddsFirst(kb, lay, e) ==
    LET key == ToLowerCase(e.key)
    IN IF e.tag \in {"INPUT", "TEXTAREA"} THEN [kb EXCEPT !.emitted = << >>]
       ELSE IF e.mod /= "none" THEN [kb EXCEPT !.emitted = << >>]
       ELSE IF key \in Range(kb.keysPressed) THEN [kb EXCEPT !.emitted = << >>]
       ELSE IF key \in DOMAIN LayoutTable(lay)
       THEN [keysPressed |-> SetAdd(kb.keysPressed, key),
             emitted |-> << [key |-> key,
                             type |-> IF lay = "drumpad" THEN "trigger" ELSE "note-on",
                             note |-> LayoutTable(lay)[key], velocity |-> KeyVelocity] >>]
       ELSE [keysPressed |-> SetAdd(kb.keysPressed, key), emitted |-> << >>]

\* a keydown handler that does not look at ctrlKey, metaKey, altKey
HandleKeyDownNoModifierCheck(kb, lay, e) ==
    LET key == ToLowerCase(e.key)
    IN IF e.tag \in {"INPUT", "TEXTAREA"} THEN [kb EXCEPT !.emitted = << >>]
       ELSE IF key \in Range(kb.keysPressed) THEN [kb EXCEPT !.emitted = << >>]
       ELSE IF key \in DOMAIN LayoutTable(lay)
       THEN [keysPressed |-> SetAdd(kb.keysPressed, key),
             emitted |-> << [key |-> key,
                             type |-> IF lay = "drumpad" THEN "trigger" ELSE "note-on",
                             note |-> LayoutTable(lay)[key], velocity |-> KeyVelocity] >>]
       ELSE [kb EXCEPT !.emitted = << >>]

\* handleKeyDown(e): the events it emits and the held-key set it leaves.
\* A trigger event carries the mapped value as index, here in the field note.
HandleKeyDown(kb, lay, e) ==
    LET key == ToLowerCase(e.key)
    IN IF e.tag \in {"INPUT", "TEXTAREA"} THEN [kb EXCEPT !.emitted = << >>]
       ELSE IF e.mod /= "none" THEN [kb EXCEPT !.emitted = << >>]
       ELSE IF key \in Range(kb.keysPressed) THEN [kb EXCEPT !.emitted = << >>]
       ELSE IF key \in DOMAIN LayoutTable(lay)
       THEN [keysPressed |-> SetAdd(kb.keysPressed, key),
             emitted |-> << [key |-> key,
                             type |-> IF lay = "drumpad" THEN "trigger" ELSE "note-on",
                             note |-> LayoutTable(lay)[key], velocity |-> KeyVelocity] >>]
       ELSE [kb EXCEPT !.emitted = << >>]

\* a keyup handler that releases the note under every layout
HandleKeyUpAnyLayout(kb, lay, e) ==
    LET key == ToLowerCase(e.key)
        held == SetDelete(kb.keysPressed, key)
    IN IF key \in DOMAIN LayoutTable(lay)
       THEN [keysPressed |-> held,
             emitted |-> << [key |-> key, type |-> "note-off",
                             note |-> LayoutTable(lay)[key]] >>]
       ELSE [keysPressed |-> held, emitted |-> << >>]

\* handleKeyUp(e)
HandleKeyUp(kb, lay, e) ==
    LET key == ToLowerCase(e.key)
        held == SetDelete(kb.keysPressed, key)
    IN IF key \in DOMAIN LayoutTable(lay) /\ lay /= "drumpad"
       THEN [keysPressed |-> held,
             emitted |-> << [key |-> key, type |-> "note-off",
                             note |-> LayoutTable(lay)[key]] >>]
       ELSE [keysPressed |-> held, emitted |-> << >>]

\* the note-off events of keysPressed.forEach in handleBlur, in the Set's order
RECURSIVE BlurEvents(_, _)
BlurEvents(held, lay) ==
    IF held = << >> THEN << >>
    ELSE LET key == Head(held)
         IN IF key \in DOMAIN LayoutTable(lay) /\ lay /= "drumpad"
            THEN << [key |-> key, type |-> "note-off",
                     note |-> LayoutTable(lay)[key]] >> \o BlurEvents(Tail(held), lay)
            ELSE BlurEvents(Tail(held), lay)

\* a blur handler that clears the held keys without releasing them
HandleBlurClearsOnly(kb, lay) ==
    [keysPressed |-> << >>, emitted |-> << >>]

\* handleBlur()
HandleBlur(kb, lay) ==
    [keysPressed |-> << >>, emitted |-> BlurEvents(kb.keysPressed, lay)]

Kb == [keysPressed |-> keysPressed, emitted |-> emitted]

NoKbEvent == [key |-> "", name |-> "none", tag |-> "BODY", mod |-> "none"]

\* the adapter as constructed: nothing held, nothing emitted
KbIdle ==
    /\ layout = "piano"
    /\ keysPressed = << >>
    /\ emitted = << >>
    /\ kbEvent = NoKbEvent
    /\ heldBefore = << >>
    /\ run = [k \in LowerKeys |-> [downs |-> 0, ons |-> 0]]
    /\ listening = TRUE
    /\ sounding = {}
    /\ outOfTurn = {}

\* the emitted note events taken in order: which keys are left sounding, and
\* for which keys an event came out of turn
RECURSIVE Turns(_, _, _)
Turns(evs, snd, out) ==
    IF evs = << >> THEN [sounding |-> snd, outOfTurn |-> out]
    ELSE LET ev == Head(evs)
         IN CASE ev.type = "note-on" ->
                   Turns(Tail(evs), snd \cup {ev.key},
                         IF ev.key \in snd THEN out \cup {ev.key} ELSE out)
              [] ev.type = "note-off" ->
                   Turns(Tail(evs), snd \ {ev.key},
                         IF ev.key \notin snd THEN out \cup {ev.key} ELSE out)
              [] OTHER -> Turns(Tail(evs), snd, out)

\* the handler's result r becomes the adapter's state
KbCommit(r) ==
    /\ keysPressed' = r.keysPressed
    /\ emitted' = r.emitted
    /\ heldBefore' = keysPressed
    /\ sounding' = Turns(r.emitted, sounding, {}).sounding
    /\ outOfTurn' = Turns(r.emitted, sounding, {}).outOfTurn
    /\ UNCHANGED <<layout, listening, mgrVars, busVars, ptrVars, extVars>>

\* the on-events (note-on or trigger) among evs
OnEvents(evs) == SelectSeq(evs, LAMBDA ev : ev.type \in {"note-on", "trigger"})

\* the browser dispatches keydown to the document
KeyDown(k, mod, tag) ==
    LET e == [key |-> k, name |-> "keydown", tag |-> tag, mod |-> mod]
        key == ToLowerCase(k)
        unfiltered == mod = "none" /\ tag = "BODY"
        r == HandleKeyDown(Kb, layout, e)
    IN /\ listening
       /\ unfiltered => run[key].downs < MaxRepeat
       /\ (unfiltered /\ run[key].downs = 0) =>
              Cardinality({x \in LowerKeys : run[x].downs > 0}) < MaxHeld
       /\ KbCommit(r)
       /\ kbEvent' = e
       /\ run' = [run EXCEPT ![key] =
                    [downs |-> IF unfiltered THEN @.downs + 1 ELSE @.downs,
                     ons |-> @.ons + Len(OnEvents(r.emitted))]]

\* the browser dispatches keyup to the document
KeyUp(k) ==
    LET e == [key |-> k, name |-> "keyup", tag |-> "BODY", mod |-> "none"]
        r == HandleKeyUp(Kb, layout, e)
    IN /\ listening
       /\ KbCommit(r)
       /\ kbEvent' = e
       /\ run' = [run EXCEPT ![ToLowerCase(k)] = [downs |-> 0, ons |-> 0]]

\* the window loses focus
Blur ==
    LET r == HandleBlur(Kb, layout)
    IN /\ listening
       /\ KbCommit(r)
       /\ kbEvent' = [NoKbEvent EXCEPT !.name = "blur"]
       /\ run' = [k \in LowerKeys |-> [downs |-> 0, ons |-> 0]]

\* KeyboardInput.cleanup(): removes the three listeners and empties
\* this.listeners; it touches nothing else and emits nothing
KeyboardCleanup(kb) == [kb EXCEPT !.emitted = << >>]

\* the manager disables the adapter
CleanupKeyboard ==
    /\ listening
    /\ listening' = FALSE
    /\ keysPressed' = KeyboardCleanup(Kb).keysPressed
    /\ emitted' = KeyboardCleanup(Kb).emitted
    /\ heldBefore' = keysPressed
    /\ kbEvent' = [NoKbEvent EXCEPT !.name = "cleanup"]
    /\ outOfTurn' = {}
    /\ UNCHANGED <<layout, run, sounding, mgrVars, busVars, ptrVars, extVars>>

----------------------------------------------------------------------------
(* JavaScript numbers: a rational n/d with d > 0, NaN, +Infinity, -Infinity;   *)
(* and undefined, which arithmetic converts to NaN.  Rounding of doubles is    *)
(* not modelled: the arithmetic is exact.                                      *)

Rat(n, d) == [n |-> n, k |-> "num", d |-> d]
Num(n) == Rat(n, 1)
NaN == [n |-> 0, k |-> "nan", d |-> 1]
Undef == [n |-> 0, k |-> "undef", d |-> 1]
PosInf == [n |-> 1, k |-> "inf", d |-> 1]
NegInf == [n |-> -1, k |-> "inf", d |-> 1]

ToNumber(v) == IF v.k = "undef" THEN NaN ELSE v
IsNaN(v) == ToNumber(v).k = "nan"
Sgn(v) == IF v.n > 0 THEN 1 ELSE IF v.n < 0 THEN -1 ELSE 0
Inf(sign) == IF sign < 0 THEN NegInf ELSE PosInf
Neg(v) == [v EXCEPT !.n = -v.n]

\* a || b and a && b: undefined, NaN and 0 are falsy
JsTruthy(v) == v.k = "inf" \/ (v.k = "num" /\ v.n /= 0)
JsOr(a, b) == IF JsTruthy(a) THEN a ELSE b
JsAnd(a, b) == IF JsTruthy(a) THEN b ELSE a

JsAdd(a0, b0) ==
    LET a == ToNumber(a0)
        b == ToNumber(b0)
    IN CASE a.k = "nan" \/ b.k = "nan" -> NaN
         [] a.k = "inf" /\ b.k = "inf" -> IF a.n = b.n THEN a ELSE NaN
         [] a.k = "inf" -> a
         [] b.k = "inf" -> b
         [] OTHER -> Rat(a.n * b.d + b.n * a.d, a.d * b.d)

JsSub(a, b) == JsAdd(a, Neg(ToNumber(b)))

JsMul(a0, b0) ==
    LET a == ToNumber(a0)
        b == ToNumber(b0)
    IN CASE a.k = "nan" \/ b.k = "nan" -> NaN
         [] a.k = "inf" \/ b.k = "inf" ->
              IF Sgn(a) * Sgn(b) = 0 THEN NaN ELSE Inf(Sgn(a) * Sgn(b))
         [] OTHER -> Rat(a.n * b.n, a.d * b.d)

JsDiv(a0, b0) ==
    LET a == ToNumber(a0)
        b == ToNumber(b0)
    IN CASE a.k = "nan" \/ b.k = "nan" -> NaN
         [] a.k = "inf" /\ b.k = "inf" -> NaN
         [] a.k = "inf" -> Inf(Sgn(a) * (IF Sgn(b) < 0 THEN -1 ELSE 1))
         [] b.k = "inf" -> Num(0)
         [] b.n = 0 -> IF a.n = 0 THEN NaN ELSE Inf(Sgn(a))
         [] OTHER -> Rat(a.n * b.d * Sgn(b), a.d * b.n * Sgn(b))

\* a <= b for numbers that are not NaN
Leq(a, b) ==
    CASE a.k = "inf" -> a.n < 0 \/ (b.k = "inf" /\ b.n > 0)
      [] b.k = "inf" -> b.n > 0
      [] OTHER -> a.n * b.d <= b.n * a.d

\* a and b are the same number
NumEq(a, b) == a.k = "num" /\ b.k = "num" /\ a.n * b.d = b.n * a.d

\* Math.max, Math.min: NaN if either argument is NaN
MathMax(a0, b0) ==
    LET a == ToNumber(a0)
        b == ToNumber(b0)
    IN IF a.k = "nan" \/ b.k = "nan" THEN NaN ELSE IF Leq(a, b) THEN b ELSE a

MathMin(a0, b0) ==
    LET a == ToNumber(a0)
        b == ToNumber(b0)
    IN IF a.k = "nan" \/ b.k = "nan" THEN NaN ELSE IF Leq(a, b) THEN a ELSE b

\* Math.floor
MathFloor(v0) ==
    LET v == ToNumber(v0)
    IN IF v.k = "num" THEN Num(v.n \div v.d) ELSE v

----------------------------------------------------------------------------
(* Math utilities (src/js/utils/math.js) *)

\* MusicMath.map
map(value, inMin, inMax, outMin, outMax) ==
    IF IsNaN(value) \/ IsNaN(inMin) \/ IsNaN(inMax) \/ IsNaN(outMin) \/ IsNaN(outMax)
    THEN outMin
    ELSE LET result == JsAdd(JsMul(JsDiv(JsSub(value, inMin), JsSub(inMax, inMin)),
                                   JsSub(outMax, outMin)), outMin)
         IN IF IsNaN(result) THEN outMin ELSE result

\* MusicMath.clamp
clamp(value, min, max) == MathMin(MathMax(value, min), max)

----------------------------------------------------------------------------
(* The pointer adapter (src/js/input/mouse.js) *)

\* what a caller passes as config.minNote / config.maxNote: nothing, or a number
ConfigNotes == {Undef, Num(0), Num(60), Num(72)}

\* the MouseInput constructor
NewMouse(mode, cfgMin, cfgMax) ==
    [mode |-> mode,
     minNote |-> JsOr(cfgMin, Num(48)),
     maxNote |-> JsOr(cfgMax, Num(84)),
     isPressed |-> FALSE]

\* e.clientX || (e.touches && e.touches[0].clientX), and the same for Y; a
\* mouse event has no touches property, a touch event has no clientX
PointerX(e) ==
    JsOr(e.clientX, IF e.hasTouches THEN e.touches[1].clientX ELSE Undef)

PointerY(e) ==
    JsOr(e.clientY, IF e.hasTouches THEN e.touches[1].clientY ELSE Undef)

\* xyToNote(x, y)
xyToNote(m, x) ==
    LET normalizedX == JsDiv(x, Num(ViewportWidth))
        note == MathFloor(map(normalizedX, Num(0), Num(1), m.minNote, m.maxNote))
    IN clamp(note, m.minNote, m.maxNote)

\* yToVelocity(y)
yToVelocity(y) ==
    LET normalizedY == JsSub(Num(1), JsDiv(y, Num(ViewportHeight)))
    IN clamp(normalizedY, Rat(2, 10), Num(1))

\* a click handler that also releases the note it started
HandleClickWithRelease(m, e) ==
    [emitted |-> << [x |-> PointerX(e), y |-> PointerY(e),
                     type |-> "note-on",
                     note |-> xyToNote(m, PointerX(e)), velocity |-> yToVelocity(PointerY(e))],
                    [type |-> "note-off"] >>,
     mouse |-> m]

\* handleClick of setupTriggerMode
HandleClick(m, e) ==
    [emitted |-> << [x |-> PointerX(e), y |-> PointerY(e),
                     type |-> "note-on",
                     note |-> xyToNote(m, PointerX(e)), velocity |-> yToVelocity(PointerY(e))] >>,
     mouse |-> m]

\* handleDown of setupContinuousMode
HandleDownContinuous(m, e) ==
    [emitted |-> << [x |-> PointerX(e), y |-> PointerY(e),
                     type |-> "note-on",
                     note |-> xyToNote(m, PointerX(e)), velocity |-> Rat(7, 10)] >>,
     mouse |-> [m EXCEPT !.isPressed = TRUE]]

\* a move handler of continuous mode that does not look at isPressed
HandleMoveContinuousAlways(m, e) ==
    [emitted |-> << [x |-> JsDiv(PointerX(e), Num(ViewportWidth)),
                     y |-> JsDiv(PointerY(e), Num(ViewportHeight)),
                     type |-> "continuous",
                     pressure |-> Rat(7, 10)] >>,
     mouse |-> m]

\* handleMove of setupContinuousMode
HandleMoveContinuous(m, e) ==
    IF ~m.isPressed THEN [emitted |-> << >>, mouse |-> m]
    ELSE [emitted |-> << [x |-> JsDiv(PointerX(e), Num(ViewportWidth)),
                          y |-> JsDiv(PointerY(e), Num(ViewportHeight)),
                          type |-> "continuous",
                          pressure |-> Rat(7, 10)] >>,
          mouse |-> m]

\* handleUp of setupContinuousMode
HandleUpContinuous(m, e) ==
    [emitted |-> << [type |-> "note-off"] >>,
     mouse |-> [m EXCEPT !.isPressed = FALSE]]

\* handleMove of setupXYPadMode
HandleMoveXY(m, e) ==
    [emitted |-> << [x |-> JsDiv(PointerX(e), Num(ViewportWidth)),
                     y |-> JsDiv(PointerY(e), Num(ViewportHeight)),
                     type |-> "continuous",
                     pressure |-> IF m.isPressed THEN Num(1) ELSE Rat(5, 10)] >>,
     mouse |-> m]

\* a press handler of xy-pad mode that starts a note
HandleDownXYWithNote(m, e) ==
    [emitted |-> << [x |-> PointerX(e), y |-> PointerY(e),
                     type |-> "note-on",
                     note |-> xyToNote(m, PointerX(e)), velocity |-> Rat(7, 10)] >>,
     mouse |-> [m EXCEPT !.isPressed = TRUE]]

\* handleDown, handleUp of setupXYPadMode
HandleDownXY(m, e) == [emitted |-> << >>, mouse |-> [m EXCEPT !.isPressed = TRUE]]

HandleUpXY(m, e) == [emitted |-> << >>, mouse |-> [m EXCEPT !.isPressed = FALSE]]

\* the handler each mode registers for an event name
PointerHandler(m, e) ==
    CASE m.mode = "trigger" -> HandleClick(m, e)
      [] m.mode = "continuous" /\ e.name \in {"mousedown", "touchstart"} ->
            HandleDownContinuous(m, e)
      [] m.mode = "continuous" /\ e.name \in {"mousemove", "touchmove"} ->
            HandleMoveContinuous(m, e)
      [] m.mode = "continuous" /\ e.name \in {"mouseup", "touchend"} ->
            HandleUpContinuous(m, e)
      [] m.mode = "xy-pad" /\ e.name \in {"mousemove", "touchmove"} -> HandleMoveXY(m, e)
      [] m.mode = "xy-pad" /\ e.name \in {"mousedown", "touchstart"} -> HandleDownXY(m, e)
      [] m.mode = "xy-pad" /\ e.name \in {"mouseup", "touchend"} -> HandleUpXY(m, e)

MouseEventNames == {"click", "mousedown", "mousemove", "mouseup"}

PressNames == {"mousedown", "touchstart"}
MoveNames == {"mousemove", "touchmove"}
ReleaseNames == {"mouseup", "touchend"}

NoPtrEvent ==
    [name |-> "none", clientX |-> Undef, hasTouches |-> FALSE,
     touches |-> << >>, clientY |-> Undef]

\* the adapter as constructed with the default configuration
PtrIdle ==
    /\ mouse = NewMouse("trigger", Undef, Undef)
    /\ ptrEmitted = << >>
    /\ ptrEvent = NoPtrEvent
    /\ pointerDown = FALSE
    /\ downBefore = FALSE

\* the event reaches the container and the mode registered a handler for it
Deliver(e) ==
    /\ <<"container", e.name>> \in MouseRegistered(mouse.mode)
    /\ LET r == PointerHandler(mouse, e)
       IN /\ mouse' = r.mouse
          /\ ptrEmitted' = r.emitted
    /\ ptrEvent' = e
    /\ pointerDown' = IF e.name \in PressNames THEN TRUE
                      ELSE IF e.name \in ReleaseNames THEN FALSE
                      ELSE pointerDown
    /\ downBefore' = pointerDown
    /\ UNCHANGED <<mgrVars, busVars, kbVars, extVars>>

\* a mouse event at viewport position (x, y)
MouseEvent(name, x, y) ==
    Deliver([name |-> name, clientX |-> Num(x), hasTouches |-> FALSE,
             touches |-> << >>, clientY |-> Num(y)])

\* a touch event with its list of active touch points
TouchEvent(name, touches) ==
    Deliver([name |-> name, clientX |-> Undef, hasTouches |-> TRUE,
             touches |-> touches, clientY |-> Undef])

----------------------------------------------------------------------------
(* The MIDI-in decoder (src/js/input/midi.js) *)

\* the command values handleMidiMessage compares status & 0xf0 with
CmdNoteOn == 144
CmdNoteOff == 128
CmdControlChange == 176

\* status bytes: every high nibble, on the first, the tenth and the last channel
StatusBytes == {n * 16 + c : n \in 0..15, c \in {0, 9, 15}}
DataBytes1 == {0, 60, 127}
DataBytes2 == {0, 1, 64, 127}

\* the messages a port delivers: complete three-byte messages and truncated ones
MidiMessages ==
    {<<s, a, b>> : s \in StatusBytes, a \in DataBytes1, b \in DataBytes2}
        \cup {<<s, a>> : s \in StatusBytes, a \in DataBytes1}
        \cup {<<s>> : s \in StatusBytes} \cup {<< >>}

\* const [status, note, velocity] = message.data: a missing element is undefined
ByteAt(data, n) == IF n <= Len(data) THEN data[n] ELSE Undefined

\* a byte as a JavaScript number
ByteNum(b) == IF b = Undefined THEN Undef ELSE Num(b)

\* status & 0xf0 and status & 0x0f; undefined converts to 0
HighNibble(b) == IF b = Undefined THEN 0 ELSE (b \div 16) * 16
LowNibble(b) == IF b = Undefined THEN 0 ELSE b % 16

\* a decoder for which 0x90 is a note-on whatever the velocity
HandleMidiMessageNoZeroVelocity(data) ==
    LET status == ByteAt(data, 1)
        note == ByteAt(data, 2)
        velocity == ByteAt(data, 3)
        command == HighNibble(status)
        channel == LowNibble(status)
    IN CASE command = CmdNoteOn ->
              << [type |-> "note-on", note |-> note,
                  velocity |-> JsDiv(ByteNum(velocity), Num(127)), channel |-> channel] >>
         [] command = CmdNoteOff ->
              << [type |-> "note-off", note |-> note, channel |-> channel] >>
         [] command = CmdControlChange ->
              << [type |-> "control-change", value |-> JsDiv(ByteNum(velocity), Num(127)),
                  channel |-> channel, control |-> note] >>
         [] OTHER -> << >>

\* handleMidiMessage(message): the events it emits
HandleMidiMessage(data) ==
    LET status == ByteAt(data, 1)
        note == ByteAt(data, 2)
        velocity == ByteAt(data, 3)
        command == HighNibble(status)
        channel == LowNibble(status)
    IN CASE command = CmdNoteOn ->
              IF velocity /= Undefined /\ velocity > 0
              THEN << [type |-> "note-on", note |-> note,
                       velocity |-> JsDiv(ByteNum(velocity), Num(127)),
                       channel |-> channel] >>
              ELSE << [type |-> "note-off", note |-> note, channel |-> channel] >>
         [] command = CmdNoteOff ->
              << [type |-> "note-off", note |-> note, channel |-> channel] >>
         [] command = CmdControlChange ->
              << [type |-> "control-change", value |-> JsDiv(ByteNum(velocity), Num(127)),
                  channel |-> channel, control |-> note] >>
         [] OTHER -> << >>

\* no message handled yet
MidiIdle ==
    /\ midiData = << >>
    /\ midiEmitted = << >>

\* a connected port delivers a message to input.onmidimessage
OnMidiMessage(data) ==
    /\ midiData' = data
    /\ midiEmitted' = HandleMidiMessage(data)
    /\ UNCHANGED <<coreVars, handVars, outVars, midiOutVars, mathVars>>

----------------------------------------------------------------------------
(* Hand tracking: frames of landmarks (src/js/input/mediapipe.js) *)

\* the landmark indexes a configuration can name: thumb tip, index fingertip
TipIndexes == {4, 8}

\* a < b for numbers that are not NaN
Lt(a, b) == ~Leq(b, a)

\* the MediaPipeInput constructor's this.config, from what the caller passes;
\* showVideo is config.showVideo !== false
NewHandConfig(lineY, triggerMode, fingerTips, cfgMin, cfgMax, showVideo) ==
    [minNote |-> JsOr(cfgMin, Num(48)),
     maxNote |-> JsOr(cfgMax, Num(84)),
     lineY |-> JsOr(lineY, Rat(5, 10)),
     triggerMode |-> triggerMode,
     fingerTips |-> fingerTips,
     showVideo |-> showVideo]

\* the handles the constructor sets to null
NewHandObj ==
    [hands |-> FALSE, camera |-> FALSE,
     videoElement |-> FALSE, videoCanvas |-> FALSE, canvasElement |-> FALSE,
     canvasCtx |-> FALSE, videoCanvasCtx |-> FALSE]

\* the handles after init() has run to its end: the elements are in the
\* document, the tracker and the camera run
StartedHandObj ==
    [hands |-> TRUE, camera |-> TRUE,
     videoElement |-> TRUE, videoCanvas |-> TRUE, canvasElement |-> TRUE,
     canvasCtx |-> TRUE, videoCanvasCtx |-> TRUE]

\* cleanup(): every handle that is set is released and nulled; the two
\* drawing contexts are left as they are
HandCleanup(obj) ==
    [obj EXCEPT !.camera = FALSE, !.hands = FALSE,
                !.videoElement = FALSE, !.videoCanvas = FALSE,
                !.canvasElement = FALSE]

\* hand[tipIndex] of a landmark list that lacks that entry
MissingLandmark == [x |-> Undef, y |-> Undef]

\* a crossing test that looks at the current position only
CheckLineCrossingLevel(cfg, prev, fingerIndex, currentY) ==
    [previousPositions |-> [prev EXCEPT ![fingerIndex] = currentY],
     crossed |-> prev[fingerIndex] /= Undef /\ Leq(cfg.lineY, currentY)]

\* checkLineCrossing(fingerIndex, currentY): stores currentY, reports a crossing
CheckLineCrossing(cfg, prev, fingerIndex, currentY) ==
    LET prevY == prev[fingerIndex]
    IN [previousPositions |-> [prev EXCEPT ![fingerIndex] = currentY],
        crossed |->
            IF prevY = Undef THEN FALSE
            ELSE IF cfg.triggerMode = "cross"
                 THEN Lt(prevY, cfg.lineY) /\ Leq(cfg.lineY, currentY)
                 ELSE IF cfg.triggerMode = "continuous"
                      THEN Leq(cfg.lineY, currentY)
                      ELSE FALSE]

\* a trigger that does not round the mapped position down
TriggerNoteNoFloor(cfg, normalizedX, normalizedY, fingerIndex) ==
    [x |-> JsMul(normalizedX, Num(ViewportWidth)),
     y |-> JsMul(normalizedY, Num(ViewportHeight)),
     type |-> "note-on",
     note |-> map(normalizedX, Num(0), Num(1), cfg.minNote, cfg.maxNote),
     velocity |-> Rat(7, 10),
     fingerIndex |-> fingerIndex]

\* triggerNote(normalizedX, normalizedY, fingerIndex): the note-on it emits
TriggerNote(cfg, normalizedX, normalizedY, fingerIndex) ==
    [x |-> JsMul(normalizedX, Num(ViewportWidth)),
     y |-> JsMul(normalizedY, Num(ViewportHeight)),
     type |-> "note-on",
     note |-> MathFloor(map(normalizedX, Num(0), Num(1), cfg.minNote, cfg.maxNote)),
     velocity |-> Rat(7, 10),
     fingerIndex |-> fingerIndex]

\* processHand(hand): config.fingerTips.forEach, from the n-th fingertip on;
\* a fingertip whose landmark is missing is skipped
RECURSIVE ProcessHand(_, _, _, _, _)
ProcessHand(cfg, hand, n, prev, out) ==
    IF n > Len(cfg.fingerTips) THEN [emitted |-> out, previousPositions |-> prev]
    ELSE LET tipIndex == cfg.fingerTips[n]
             tip == hand[tipIndex]
             flippedX == JsSub(Num(1), tip.x)
             c == CheckLineCrossing(cfg, prev, tipIndex, tip.y)
         IN IF tip = MissingLandmark
            THEN ProcessHand(cfg, hand, n + 1, prev, out)
            ELSE ProcessHand(cfg, hand, n + 1, c.previousPositions,
                             IF c.crossed
                             THEN Append(out, TriggerNote(cfg, flippedX, tip.y, tipIndex))
                             ELSE out)

\* onResults raises a TypeError before it reaches processHand: clearRect on a
\* null context or with the width of a null canvasElement; drawVideoWithHands
\* reading the width of a null videoCanvas, or drawConnectors reading .x of a
\* landmark that is missing
OnResultsThrows(cfg, obj, landmarks) ==
    \/ ~obj.canvasCtx
    \/ ~obj.canvasElement
    \/ /\ cfg.showVideo /\ obj.videoCanvasCtx
       /\ \/ ~obj.videoCanvas
          \/ \E n \in DOMAIN landmarks : \E t \in DOMAIN landmarks[n] :
                 landmarks[n][t] = MissingLandmark

\* onResults(results): only the first hand of multiHandLandmarks is processed
OnResults(cfg, obj, prev, landmarks) ==
    IF OnResultsThrows(cfg, obj, landmarks)
    THEN [emitted |-> << >>, previousPositions |-> prev, threw |-> TRUE]
    ELSE IF Len(landmarks) > 0
         THEN [threw |-> FALSE] @@ ProcessHand(cfg, landmarks[1], 1, prev, << >>)
         ELSE [emitted |-> << >>, previousPositions |-> prev, threw |-> FALSE]

\* the adapter as constructed with the default configuration
HandIdle ==
    /\ handCfg = NewHandConfig(Undef, "cross", <<8>>, Undef, Undef, TRUE)
    /\ previousPositions = [t \in TipIndexes |-> Undef]
    /\ handFrame = << >>
    /\ prevBefore = [t \in TipIndexes |-> Undef]
    /\ handEmitted = << >>
    /\ handObj = NewHandObj
    /\ handLast = [threw |-> FALSE, op |-> "new", torn |-> FALSE]

\* normalized landmark coordinates the tracker reports
LandmarkXs == {Num(0), Rat(2, 10)}
LandmarkYs == {Rat(3, 10), Rat(6, 10), Rat(7, 10)}

\* a landmark the configuration does not look at
RestLandmark == [x |-> Rat(2, 10), y |-> Rat(3, 10)]

\* the hands of a frame: one hand whose watched fingertips are anywhere, or
\* missing from the landmark list
Hands(cfg) ==
    {h \in [TipIndexes -> [x : LandmarkXs, y : LandmarkYs] \cup {MissingLandmark}] :
        \A t \in TipIndexes : t \notin Range(cfg.fingerTips) => h[t] = RestLandmark}

\* the tracker delivers the results of one camera frame; a result computed
\* before cleanup() may still be delivered after it
TrackerResults(landmarks) ==
    LET r == OnResults(handCfg, handObj, previousPositions, landmarks)
    IN /\ previousPositions' = r.previousPositions
       /\ handEmitted' = r.emitted
       /\ handFrame' = landmarks
       /\ prevBefore' = previousPositions
       /\ handLast' = [handLast EXCEPT !.op = "frame", !.threw = r.threw]
       /\ UNCHANGED <<handCfg, handObj, coreVars, midiVars, outVars, midiOutVars,
                      mathVars>>

\* the manager (disableInput) or the application calls cleanup()
CleanupHand ==
    /\ handObj' = HandCleanup(handObj)
    /\ previousPositions' = [t \in TipIndexes |-> Undef]
    /\ handLast' = [threw |-> FALSE, op |-> "cleanup", torn |-> TRUE]
    /\ handEmitted' = << >>
    /\ handFrame' = << >>
    /\ prevBefore' = previousPositions
    /\ UNCHANGED <<handCfg, coreVars, midiVars, outVars, midiOutVars, mathVars>>

----------------------------------------------------------------------------
(* The Audio Output Manager (src/js/input/mediapipe.js:803-995) *)

\* the keys of this.outputs
OutTypes == {"tonejs", "webaudiofont", "drums", "midiout"}

\* what a caller passes as type: an output type, a name that is no property at
\* all, or a name that is an inherited property
OutTypeArgs == OutTypes \cup {"sampler", "constructor"}

\* what a caller passes as config: {}, {instrument: 'organ'}, {deviceId: ...}
OutConfigsOf(type) ==
    CASE type = "webaudiofont" -> {"none", "instrument"}
      [] type = "midiout" -> {"none", "deviceId"}
      [] OTHER -> {"none"}

\* a slot of this.outputs: null, or an engine object and whether its
\* initialisation has completed
NoEngine == [obj |-> FALSE, ready |-> FALSE]
NewEngine == [obj |-> TRUE, ready |-> FALSE]

\* !this.outputs[type]: a name that is no key of outputs reads undefined, or
\* the function inherited from Object.prototype, which is truthy
SlotEmpty(outs, type) ==
    IF type \in DOMAIN outs THEN ~outs[type].obj ELSE type \notin ProtoProps

\* the second part of setOutput awaits loadInstrument or selectDevice
Reconfigures(type, cfg) ==
    \/ type = "webaudiofont" /\ cfg = "instrument"
    \/ type = "midiout" /\ cfg = "deviceId"

\* the awaited engine call of loadOutput can reject: Tone.start(), the drum
\* sampler's init, MIDI access or device lookup, a soundfont that is not loaded
LoadCanFail(type, cfg) == type /= "webaudiofont" \/ cfg = "instrument"

\* the {} the constructor stores as currentConfig
NoConfig == [cfg |-> "none", id |-> 0]

\* the output manager's state with the outcome of a call
Out == [outputs |-> outputs, currentOutput |-> currentOutput,
        currentConfig |-> currentConfig,
        pendingSet |-> pendingSet, resolved |-> outLast.resolved]

\* the end of setOutput that records the first type selected only
FinishSetOutputOnce(o, c) ==
    [o EXCEPT !.currentOutput = IF o.resolved = << >> THEN c.type ELSE @,
              !.currentConfig = [cfg |-> c.cfg, id |-> c.id],
              !.resolved = Append(@, c.type)]

\* the end of setOutput: this.currentOutput = type, this.currentConfig = config,
\* and the promise resolves
FinishSetOutput(o, c) ==
    [o EXCEPT !.currentOutput = c.type,
              !.currentConfig = [cfg |-> c.cfg, id |-> c.id],
              !.resolved = Append(@, c.type)]

\* setOutput after loadOutput: wait for the reconfiguration, or finish
AfterLoad(o, c) ==
    IF Reconfigures(c.type, c.cfg)
    THEN [o EXCEPT !.pendingSet = @ \cup {[c EXCEPT !.at = "reconfig"]}]
    ELSE FinishSetOutput(o, c)

\* the call threw before any await: loadOutput's default case
ThrowsAtCall(o, type) == SlotEmpty(o.outputs, type) /\ type \notin OutTypes

\* setOutput(type, config) up to its first await
SetOutputBegin(o, id, type, cfg) ==
    LET c == [cfg |-> cfg, at |-> "load", type |-> type, id |-> id]
    IN IF SlotEmpty(o.outputs, type)
       THEN IF type \notin OutTypes
            THEN o
            ELSE [o EXCEPT !.outputs[type] = NewEngine,
                           !.pendingSet = @ \cup {c}]
       ELSE AfterLoad(o, c)

\* loadOutput awaits an engine call: init() of a Tone or drum engine it has
\* just made, loadInstrument, and selectDevice or init() of the MIDI output
LoadAwaits(o, type, cfg) ==
    \/ type \in {"tonejs", "drums"} /\ SlotEmpty(o.outputs, type)
    \/ type = "webaudiofont" /\ cfg = "instrument"
    \/ type = "midiout"

\* loadOutput(type, config) called by the application, up to its first await;
\* its switch compares the type with the four names, so any other name throws
LoadOutputBegin(o, id, type, cfg) ==
    LET c == [cfg |-> cfg, at |-> "loadOutput", type |-> type, id |-> id]
    IN IF type \notin OutTypes
       THEN o
       ELSE LET made == [o EXCEPT !.outputs[type].obj = TRUE]
            IN IF LoadAwaits(o, type, cfg)
               THEN [made EXCEPT !.pendingSet = @ \cup {c}]
               ELSE [made EXCEPT !.outputs[type].ready = (@ \/ type = "webaudiofont")]

\* the engines with triggerNote and releaseNote; the drum sampler is not part
\* of the sources, so it may have them or not
Sustains(type, drumsSustain) == type /= "drums" \/ drumsSustain

\* output.playNote is not a function: the output read from the slot is the
\* inherited function, and playNote (also triggerNote's fallback) is called on it
PlayThrows(o, method) ==
    o.currentOutput \notin DOMAIN o.outputs /\ ~SlotEmpty(o.outputs, o.currentOutput)
        /\ method /= "releaseNote"

\* playNote / triggerNote / releaseNote: the engine methods invoked
Forward(o, method, drumsSustain) ==
    IF SlotEmpty(o.outputs, o.currentOutput) \/ o.currentOutput \notin DOMAIN o.outputs
    THEN {}
    ELSE CASE method = "playNote" -> {<<o.currentOutput, "playNote">>}
           [] method = "triggerNote" ->
                IF Sustains(o.currentOutput, drumsSustain)
                THEN {<<o.currentOutput, "triggerNote">>}
                ELSE {<<o.currentOutput, "playNote">>}
           [] method = "releaseNote" ->
                IF Sustains(o.currentOutput, drumsSustain)
                THEN {<<o.currentOutput, "releaseNote">>}
                ELSE {}

PlayMethods == {"playNote", "triggerNote", "releaseNote"}

\* the manager as constructed
OutIdle ==
    /\ outputs = [t \in OutTypes |-> NoEngine]
    /\ currentOutput = "tonejs"
    /\ currentConfig = NoConfig
    /\ pendingSet = {}
    /\ forwarded = {}
    /\ outLast = [type |-> "none", op |-> "new", id |-> 0, resolved |-> << >>,
                  ok |-> TRUE, calls |-> 0,
                  pre |-> [currentOutput |-> "tonejs", currentConfig |-> NoConfig],
                  latest |-> [cfg |-> "none", type |-> "none", id |-> 0, sets |-> 0]]

----------------------------------------------------------------------------
(* The MIDI output engine (src/js/audio/midi-output.js) *)

\* the most output ports the host lists, the most playNote calls made, and
\* the most calls that wait for an access request at a time
MaxOutPorts == 2
MaxPlayed == 2
MaxAccessPending == 1

\* the ids of the output ports, in the order midiAccess.outputs lists them
OutDevices == 1..MaxOutPorts

\* what a caller passes to selectDevice: the id of a port, or of none
DeviceIdArgs == 1..(MaxOutPorts + 1)

\* the notes, durations (in ticks of the timer clock) and velocities played
OutNotes == {60, 64}
NoteDurations == {1, 2}
Velocities == {Rat(1, 2), Rat(4, 5)}

\* the status bytes of the messages: 0x90 and 0x80
StatusNoteOn == 144
StatusNoteOff == 128

\* Math.floor(velocity * 127)
VelocityValue(velocity) == MathFloor(JsMul(velocity, Num(127)))

\* outputs[0] of Array.from(this.midiAccess.outputs.values())
FirstOutput(listed) == CHOOSE d \in listed : \A e \in listed : d <= e

\* what one send call hands to a port
Message(port, status, note, value) ==
    [data |-> <<status, note, value>>, to |-> port]

\* a releaseNote that also cancelled the deferred calls for the note
TimersAfterReleaseCancelled(timers, note) == {t \in timers : t.note /= note}

\* the deferred calls after releaseNote(note): it keeps no handle of them and
\* cancels none; each remembers that the note was released meanwhile
TimersAfterRelease(timers, note) ==
    {[t EXCEPT !.released = (@ \/ t.note = note)] : t \in timers}

\* the record of a step of the engine
MidiOutStep(op, note, id, ok) ==
    [note |-> note, velocity |-> Num(0), op |-> op, id |-> id,
     ok |-> ok,
     timers |-> outTimers, released |-> FALSE, played |-> IF op = "playNote" THEN midiOutLast.played + 1 ELSE midiOutLast.played, duration |-> 0,
     on |-> Null]

\* new MidiOutput()
MidiOutIdle ==
    /\ outputDevice = Null
    /\ activeNotes = {}
    /\ outAccess = FALSE
    /\ outHost = [listed |-> {}, api |-> TRUE]
    /\ outPending = {}
    /\ outTimers = {}
    /\ outSent = << >>
    /\ midiOutLast = [note |-> 0, velocity |-> Num(0), op |-> "new", id |-> 0, ok |-> TRUE,
                      timers |-> {}, released |-> FALSE, played |-> 0,
                      duration |-> 0, on |-> Null]

----------------------------------------------------------------------------
(* Idle values of the map variables *)

MathIdle ==
    /\ mapArgs = << >>
    /\ mapResult = Undef

ExtIdle == MidiIdle /\ HandIdle /\ OutIdle /\ MidiOutIdle /\ MathIdle

\* the numbers a caller passes to map
MapValues == {Num(0), Num(5), Num(10), Num(100)}

\* a call map(value, inMin, inMax, outMin, outMax)
CallMap(value, inMin, inMax, outMin, outMax) ==
    /\ mapArgs' = <<value, inMin, inMax, outMin, outMax>>
    /\ mapResult' = map(value, inMin, inMax, outMin, outMax)
    /\ UNCHANGED <<coreVars, midiVars, handVars, outVars, midiOutVars>>

----------------------------------------------------------------------------
(* Actions of the InputManager specification *)

Snapshot == [activeInputs |-> activeInputs, inputModules |-> inputModules]

\* the adapters whose enable was waiting when the kind was disabled, with no
\* enableInput of the kind since
Revoked(op, arg) ==
    LET waiting(kinds) ==
            {i \in DOMAIN inst : inst[i].phase = "pending" /\ inst[i].kind \in kinds}
    IN CASE op = "disableInput" -> last.revoked \cup waiting({arg})
         [] op = "disableAll" -> last.revoked \cup waiting(Kinds)
         [] op = "enableInput" -> last.revoked \ {i \in DOMAIN inst : inst[i].kind = arg}
         [] OTHER -> last.revoked

Called(op, arg, r) ==
    [inst |-> r.made, cleanups |-> r.cleanups, threw |-> r.threw, error |-> r.error,
     op |-> op, pre |-> Snapshot,
     arg |-> arg, revoked |-> Revoked(op, arg),
     again |-> (op = "disableAll" /\ last.op = "disableAll")]

Commit(r) ==
    /\ activeInputs' = r.activeInputs
    /\ inputModules' = r.inputModules
    /\ inst' = r.inst
    /\ registered' = r.registered
    /\ stateHandler' = r.stateHandler
    /\ portHandler' = r.portHandler

ConfigsOf(type) ==
    CASE type = "keyboard" -> Layouts
      [] type = "mouse" -> Modes
      [] OTHER -> {"default"}

\* a caller calls enableInput(type, config)
EnableInput(type, cfg) ==
    /\ type \in Kinds => Len(inst) < MaxInst
    /\ LET r == EnableInputF(St, type, cfg)
       IN /\ Commit(r)
          /\ last' = Called("enableInput", type, r)
    /\ fired' = {}
    /\ UNCHANGED <<ports, host, busVars, kbVars, ptrVars, extVars>>

\* requestMIDIAccess() resolved: the rest of MidiInput.init, then of enableInput
MidiGranted(i) ==
    /\ i \in DOMAIN inst
    /\ inst[i].kind = "midi" /\ inst[i].phase = "pending"
    /\ LET connected == [St EXCEPT !.inst[i].midiAccess = TRUE,
                                   !.inst[i].connectedInputs = ports,
                                   !.portHandler = @ \cup {<<i, p>> : p \in ports},
                                   !.stateHandler = @ \cup {i},
                                   !.made = i]
           r == IF ports = {}
                THEN [connected EXCEPT !.inst[i].phase = "failed", !.threw = TRUE,
                                       !.error = MidiInitFailure("ports")]
                ELSE Activate(connected, "midi", i)
       IN /\ Commit(r)
          /\ last' = Called("settle", "midi", r)
    /\ fired' = {}
    /\ UNCHANGED <<ports, host, busVars, kbVars, ptrVars, extVars>>

\* requestMIDIAccess() rejected (permission denied): init rethrows
MidiDenied(i) ==
    /\ i \in DOMAIN inst
    /\ inst[i].kind = "midi" /\ inst[i].phase = "pending"
    /\ LET r == [St EXCEPT !.inst[i].phase = "failed", !.threw = TRUE, !.made = i,
                            !.error = MidiInitFailure("request")]
       IN /\ Commit(r)
          /\ last' = Called("settle", "midi", r)
    /\ fired' = {}
    /\ UNCHANGED <<ports, host, busVars, kbVars, ptrVars, extVars>>

\* camera.start() resolved: init returns, enableInput assigns the slot
CameraStarted(i) ==
    /\ i \in DOMAIN inst
    /\ inst[i].kind = "mediapipe" /\ inst[i].phase = "pending"
    /\ LET r == Activate([St EXCEPT !.made = i], "mediapipe", i)
       IN /\ Commit(r)
          /\ last' = Called("settle", "mediapipe", r)
    /\ fired' = {}
    /\ UNCHANGED <<ports, host, busVars, kbVars, ptrVars, extVars>>

\* camera.start() rejected (no camera, permission denied): cleanup(), rethrow
CameraRejected(i) ==
    /\ i \in DOMAIN inst
    /\ inst[i].kind = "mediapipe" /\ inst[i].phase = "pending"
    /\ LET r == [MediaPipeCleanup([St EXCEPT !.made = i], i)
                    EXCEPT !.inst[i].phase = "failed", !.threw = TRUE,
                           !.error = HostRejection]
       IN /\ Commit(r)
          /\ last' = Called("settle", "mediapipe", r)
    /\ fired' = {}
    /\ UNCHANGED <<ports, host, busVars, kbVars, ptrVars, extVars>>

\* a caller calls disableInput(type)
DisableInput(type) ==
    /\ LET r == DisableInputF(St, type)
       IN /\ Commit(r)
          /\ last' = Called("disableInput", type, r)
    /\ fired' = {}
    /\ UNCHANGED <<ports, host, busVars, kbVars, ptrVars, extVars>>

\* a caller calls disableAll()
DisableAll ==
    /\ LET r == DisableAllF(St)
       IN /\ Commit(r)
          /\ last' = Called("disableAll", "all", r)
    /\ fired' = {}
    /\ UNCHANGED <<ports, host, busVars, kbVars, ptrVars, extVars>>

\* the browser dispatches a keyboard, focus, mouse or touch event: every handler
\* registered for it on that target runs
DomEvent(target, event) ==
    /\ fired' = {i \in DOMAIN inst : <<i, target, event>> \in registered}
    /\ last' = [last EXCEPT !.op = "event", !.arg = event, !.inst = 0,
                            !.threw = FALSE, !.cleanups = 0, !.error = NoError,
                            !.pre = Snapshot, !.again = FALSE]
    /\ UNCHANGED <<activeInputs, inputModules, inst, registered, stateHandler,
                   portHandler, ports, host, busVars, kbVars, ptrVars, extVars>>

\* a MIDI input port appears: every access object's onstatechange runs
\* handleStateChange, which connects the port
PortConnect(p) ==
    /\ p \notin ports
    /\ ports' = ports \cup {p}
    /\ portHandler' = portHandler \cup {<<i, p>> : i \in stateHandler}
    /\ inst' = [i \in DOMAIN inst |->
                  IF i \in stateHandler
                  THEN [inst[i] EXCEPT !.connectedInputs = @ \cup {p}]
                  ELSE inst[i]]
    /\ fired' = {}
    /\ last' = [last EXCEPT !.op = "event", !.arg = "statechange", !.inst = 0,
                            !.threw = FALSE, !.cleanups = 0, !.error = NoError,
                            !.pre = Snapshot, !.again = FALSE]
    /\ UNCHANGED <<activeInputs, inputModules, registered, stateHandler, host, busVars, kbVars, ptrVars, extVars>>

\* a MIDI input port disappears: handleStateChange forgets it (the port object
\* keeps the onmidimessage it was given)
PortDisconnect(p) ==
    /\ p \in ports
    /\ ports' = ports \ {p}
    /\ inst' = [i \in DOMAIN inst |->
                  IF i \in stateHandler
                  THEN [inst[i] EXCEPT !.connectedInputs = @ \ {p}]
                  ELSE inst[i]]
    /\ fired' = {}
    /\ last' = [last EXCEPT !.op = "event", !.arg = "statechange", !.inst = 0,
                            !.threw = FALSE, !.cleanups = 0, !.error = NoError,
                            !.pre = Snapshot, !.again = FALSE]
    /\ UNCHANGED <<activeInputs, inputModules, registered, stateHandler,
                   portHandler, host, busVars, kbVars, ptrVars, extVars>>

\* a connected port delivers a message: its onmidimessage closures run
MidiMessage(p) ==
    /\ p \in ports
    /\ fired' = {i \in DOMAIN inst : <<i, p>> \in portHandler}
    /\ last' = [last EXCEPT !.op = "event", !.arg = "midimessage", !.inst = 0,
                            !.threw = FALSE, !.cleanups = 0, !.error = NoError,
                            !.pre = Snapshot, !.again = FALSE]
    /\ UNCHANGED <<activeInputs, inputModules, inst, registered, stateHandler,
                   portHandler, ports, host, busVars, kbVars, ptrVars, extVars>>

\* a message reaches the port object of a port whose state has changed to
\* disconnected (one the host had queued): the object's onmidimessage closures run
StaleMidiMessage(p) ==
    /\ p \notin ports
    /\ fired' = {i \in DOMAIN inst : <<i, p>> \in portHandler}
    /\ last' = [last EXCEPT !.op = "event", !.arg = "stalemessage", !.inst = 0,
                            !.threw = FALSE, !.cleanups = 0, !.error = NoError,
                            !.pre = Snapshot, !.again = FALSE]
    /\ UNCHANGED <<activeInputs, inputModules, inst, registered, stateHandler,
                   portHandler, ports, host, busVars, kbVars, ptrVars, extVars>>

\* the tracker delivers a frame result to onResults while camera and tracker run
Frame(i) ==
    /\ i \in DOMAIN inst
    /\ inst[i].kind = "mediapipe" /\ inst[i].phase = "ready"
    /\ inst[i].camera /\ inst[i].hands
    /\ fired' = {i}
    /\ last' = [last EXCEPT !.op = "event", !.arg = "frame", !.inst = 0,
                            !.threw = FALSE, !.cleanups = 0, !.error = NoError,
                            !.pre = Snapshot, !.again = FALSE]
    /\ UNCHANGED <<activeInputs, inputModules, inst, registered, stateHandler,
                   portHandler, ports, host, busVars, kbVars, ptrVars, extVars>>

\* the bus with no listener and nothing emitted yet
BusIdle ==
    /\ eventListeners = [t \in EventTypes |-> << >>]
    /\ delivery = [type |-> "none", script |-> [l \in ListenerIds |-> NoMutation], delivered |-> << >>,
                   atCall |-> << >>]

\* new InputManager() on a page whose host facilities are any combination
Init ==
    /\ BusIdle
    /\ KbIdle
    /\ PtrIdle
    /\ ExtIdle
    /\ activeInputs = << >>
    /\ inputModules = [k \in Kinds |-> Null]
    /\ inst = << >>
    /\ registered = {}
    /\ stateHandler = {}
    /\ portHandler = {}
    /\ ports \in SUBSET Ports
    /\ host \in [midiApi : BOOLEAN, handsLib : BOOLEAN]
    /\ fired = {}
    /\ last = [inst |-> 0, cleanups |-> 0, threw |-> FALSE, error |-> NoError, op |-> "new",
               pre |-> [activeInputs |-> << >>, inputModules |-> [k \in Kinds |-> Null]],
               arg |-> "none",
               revoked |-> {}, again |-> FALSE]

Next ==
    \/ \E type \in TypeArgs : \E cfg \in ConfigsOf(type) : EnableInput(type, cfg)
    \/ \E i \in 1..MaxInst : MidiGranted(i)
    \/ \E i \in 1..MaxInst : MidiDenied(i)
    \/ \E i \in 1..MaxInst : CameraStarted(i)
    \/ \E i \in 1..MaxInst : CameraRejected(i)
    \/ \E type \in TypeArgs : DisableInput(type)
    \/ DisableAll
    \/ \E ev \in DomEvents : DomEvent(ev[1], ev[2])
    \/ \E p \in Ports : PortConnect(p)
    \/ \E p \in Ports : PortDisconnect(p)
    \/ \E p \in Ports : MidiMessage(p)
    \/ \E p \in Ports : StaleMidiMessage(p)
    \/ \E i \in 1..MaxInst : Frame(i)

Spec == Init /\ [][Next]_vars

\* the manager as constructed, no adapter enabled, on a host that has everything
MgrIdle ==
    /\ activeInputs = << >>
    /\ inputModules = [k \in Kinds |-> Null]
    /\ inst = << >>
    /\ registered = {}
    /\ stateHandler = {}
    /\ portHandler = {}
    /\ ports = {}
    /\ host = [midiApi |-> TRUE, handsLib |-> TRUE]
    /\ fired = {}
    /\ last = [inst |-> 0, cleanups |-> 0, threw |-> FALSE, error |-> NoError, op |-> "new",
               pre |-> [activeInputs |-> << >>, inputModules |-> [k \in Kinds |-> Null]],
               arg |-> "none",
               revoked |-> {}, again |-> FALSE]

InitBus == MgrIdle /\ BusIdle /\ KbIdle /\ PtrIdle /\ ExtIdle

InitKeyboard ==
    /\ MgrIdle
    /\ BusIdle
    /\ PtrIdle
    /\ ExtIdle
    /\ layout \in Layouts
    /\ keysPressed = << >>
    /\ emitted = << >>
    /\ kbEvent = NoKbEvent
    /\ heldBefore = << >>
    /\ run = [k \in LowerKeys |-> [downs |-> 0, ons |-> 0]]
    /\ listening = TRUE
    /\ sounding = {}
    /\ outOfTurn = {}

NextKeyboard ==
    \/ \E k \in Keys : \E mod \in Modifiers : \E tag \in TagNames : KeyDown(k, mod, tag)
    \/ \E k \in Keys : KeyUp(k)
    \/ Blur
    \/ CleanupKeyboard

SpecKeyboard == InitKeyboard /\ [][NextKeyboard]_vars

\* new MouseInput(manager, config) for any mode and note window the caller gives
InitPointer ==
    /\ MgrIdle
    /\ BusIdle
    /\ KbIdle
    /\ ExtIdle
    /\ \E mode \in Modes : \E lo \in ConfigNotes : \E hi \in ConfigNotes :
          mouse = NewMouse(mode, lo, hi)
    /\ ptrEmitted = << >>
    /\ ptrEvent = NoPtrEvent
    /\ pointerDown = FALSE
    /\ downBefore = FALSE

NextPointer ==
    \/ \E name \in MouseEventNames : \E x \in 0..ViewportWidth :
          \E y \in 0..ViewportHeight : MouseEvent(name, x, y)
    \/ \E name \in {"touchstart", "touchmove"} : \E x \in 0..ViewportWidth :
          \E y \in 0..ViewportHeight : TouchEvent(name, << [clientX |-> Num(x), clientY |-> Num(y)] >>)
    \/ TouchEvent("touchend", << >>)

SpecPointer == InitPointer /\ [][NextPointer]_vars

\* the four specifications above at rest
CoreIdle == MgrIdle /\ BusIdle /\ KbIdle /\ PtrIdle

\* a MidiInput with a connected port, before any message
InitMidi == CoreIdle /\ ExtIdle

NextMidi == \E data \in MidiMessages : OnMidiMessage(data)

SpecMidi == InitMidi /\ [][NextMidi]_vars

\* new MediaPipeInput(manager, config), initialised, for the configurations
\* a caller can give
InitHand ==
    /\ CoreIdle
    /\ MidiIdle
    /\ OutIdle
    /\ MidiOutIdle
    /\ MathIdle
    /\ \E lineY \in {Undef, Rat(6, 10)} :
          \E triggerMode \in {"cross", "continuous"} :
             \E fingerTips \in {<<8>>, <<4, 8>>} :
                \E window \in {<<Undef, Undef>>, <<Num(60), Num(72)>>} :
                   \E showVideo \in BOOLEAN :
                      handCfg = NewHandConfig(lineY, triggerMode, fingerTips,
                                              window[1], window[2], showVideo)
    /\ previousPositions = [t \in TipIndexes |-> Undef]
    /\ handFrame = << >>
    /\ prevBefore = [t \in TipIndexes |-> Undef]
    /\ handEmitted = << >>
    /\ handObj = StartedHandObj
    /\ handLast = [threw |-> FALSE, op |-> "new", torn |-> FALSE]

NextHand ==
    \/ \E h \in Hands(handCfg) : TrackerResults(<<h>>)
    \/ TrackerResults(<< >>)
    \/ CleanupHand

SpecHand == InitHand /\ [][NextHand]_vars

----------------------------------------------------------------------------
(* The output manager's calls and the settling of what they await *)

\* the result o of a step of call c becomes the manager's state; the record of
\* the step keeps what currentOutput and currentConfig were before it, and the
\* setOutput call issued last
OutCommit(o, op, c, ok) ==
    /\ outputs' = o.outputs
    /\ currentOutput' = o.currentOutput
    /\ currentConfig' = o.currentConfig
    /\ pendingSet' = o.pendingSet
    /\ outLast' = [type |-> c.type, op |-> op, id |-> c.id, resolved |-> o.resolved,
                   ok |-> ok,
                   calls |-> IF op \in {"setOutput", "loadOutput"}
                             THEN outLast.calls + 1 ELSE outLast.calls,
                   pre |-> [currentOutput |-> currentOutput,
                            currentConfig |-> currentConfig],
                   latest |-> IF op = "setOutput"
                              THEN [cfg |-> c.cfg, type |-> c.type, id |-> c.id,
                                    sets |-> outLast.latest.sets + 1]
                              ELSE outLast.latest]
    /\ UNCHANGED <<coreVars, midiVars, handVars, midiOutVars, mathVars>>

\* the application calls setOutput(type, config)
SetOutput(type, cfg) ==
    /\ outLast.calls < MaxCalls
    /\ LET id == outLast.calls + 1
       IN OutCommit(SetOutputBegin(Out, id, type, cfg), "setOutput",
                    [cfg |-> cfg, at |-> "load", type |-> type, id |-> id],
                    ~ThrowsAtCall(Out, type))
    /\ forwarded' = {}

\* the application (or the manager's init) calls loadOutput(type, config)
LoadOutput(type, cfg) ==
    /\ outLast.calls < MaxCalls
    /\ LET id == outLast.calls + 1
       IN OutCommit(LoadOutputBegin(Out, id, type, cfg), "loadOutput",
                    [cfg |-> cfg, at |-> "loadOutput", type |-> type, id |-> id],
                    type \in OutTypes)
    /\ forwarded' = {}

\* the engine call loadOutput awaits is fulfilled; a loadOutput that setOutput
\* called returns into setOutput
LoadResolved(c) ==
    /\ c \in pendingSet /\ c.at \in {"load", "loadOutput"}
    /\ LET loaded == [Out EXCEPT !.pendingSet = @ \ {c},
                                 !.outputs[c.type].ready = TRUE]
       IN OutCommit(IF c.at = "load" THEN AfterLoad(loaded, c) ELSE loaded,
                    "loaded", c, TRUE)
    /\ forwarded' = {}

\* the engine call loadOutput awaits rejects: loadOutput rethrows, and so does a
\* setOutput that called it; a selectDevice that finds no device with the id
\* has run init() first when there was no access object, and that took the
\* first output port as the device
LoadRejected(c, initDone) ==
    /\ c \in pendingSet /\ c.at \in {"load", "loadOutput"}
    /\ LoadCanFail(c.type, c.cfg)
    /\ initDone => (c.type = "midiout" /\ c.cfg = "deviceId")
    /\ OutCommit([Out EXCEPT !.pendingSet = @ \ {c},
                             !.outputs[c.type].ready = (@ \/ initDone)],
                 "loaded", c, FALSE)
    /\ forwarded' = {}

\* loadInstrument / selectDevice of setOutput's second part is fulfilled
ReconfigResolved(c) ==
    /\ c \in pendingSet /\ c.at = "reconfig"
    /\ OutCommit(FinishSetOutput([Out EXCEPT !.pendingSet = @ \ {c},
                                             !.outputs[c.type].ready = TRUE], c),
                 "reconfigured", c, TRUE)
    /\ forwarded' = {}

\* loadInstrument / selectDevice of setOutput's second part rejects
ReconfigRejected(c, initDone) ==
    /\ c \in pendingSet /\ c.at = "reconfig"
    /\ initDone => c.type = "midiout"
    /\ OutCommit([Out EXCEPT !.pendingSet = @ \ {c},
                             !.outputs[c.type].ready = (@ \/ initDone)],
                 "reconfigured", c, FALSE)
    /\ forwarded' = {}

\* the application calls playNote, triggerNote or releaseNote
Play(method, drumsSustain) ==
    /\ OutCommit(Out, method,
                 [cfg |-> "none", at |-> "play", type |-> currentOutput, id |-> 0],
                 ~PlayThrows(Out, method))
    /\ forwarded' = Forward(Out, method, drumsSustain)

\* new AudioOutputManager()
InitOutput == CoreIdle /\ ExtIdle

NextOutput ==
    \/ \E type \in OutTypeArgs : \E cfg \in OutConfigsOf(type) : SetOutput(type, cfg)
    \/ \E type \in OutTypeArgs : \E cfg \in OutConfigsOf(type) : LoadOutput(type, cfg)
    \/ \E c \in pendingSet : LoadResolved(c)
    \/ \E c \in pendingSet : \E initDone \in BOOLEAN : LoadRejected(c, initDone)
    \/ \E c \in pendingSet : ReconfigResolved(c)
    \/ \E c \in pendingSet : \E initDone \in BOOLEAN : ReconfigRejected(c, initDone)
    \/ \E method \in PlayMethods : \E drumsSustain \in BOOLEAN : Play(method, drumsSustain)

SpecOutput == InitOutput /\ [][NextOutput]_vars

----------------------------------------------------------------------------
(* The MIDI output engine's calls, its timers and the access request *)

\* init(): throws without requestMIDIAccess, else waits for the access
InitMidiOutput ==
    /\ Cardinality(outPending) < MaxAccessPending
    /\ IF ~outHost.api
       THEN /\ outPending' = outPending
            /\ midiOutLast' = MidiOutStep("init", 0, 0, FALSE)
       ELSE /\ outPending' = outPending \cup {[op |-> "init", deviceId |-> Null]}
            /\ midiOutLast' = MidiOutStep("init", 0, 0, TRUE)
    /\ outSent' = << >>
    /\ UNCHANGED <<outputDevice, activeNotes, outAccess, outHost, outTimers,
                   coreVars, midiVars, handVars, outVars, mathVars>>

\* selectDevice(deviceId): with an access object it looks the port up at once,
\* without one it runs init() first
SelectDevice(deviceId) ==
    /\ outAccess \/ Cardinality(outPending) < MaxAccessPending
    /\ IF outAccess
       THEN /\ outputDevice' = IF deviceId \in outHost.listed THEN deviceId
                               ELSE outputDevice
            /\ outPending' = outPending
            /\ midiOutLast' = MidiOutStep("selectDevice", 0, 0,
                                          deviceId \in outHost.listed)
       ELSE /\ outputDevice' = outputDevice
            /\ outPending' = IF outHost.api
                             THEN outPending \cup {[op |-> "selectDevice",
                                                    deviceId |-> deviceId]}
                             ELSE outPending
            /\ midiOutLast' = MidiOutStep("selectDevice", 0, 0, outHost.api)
    /\ outSent' = << >>
    /\ UNCHANGED <<activeNotes, outAccess, outHost, outTimers,
                   coreVars, midiVars, handVars, outVars, mathVars>>

\* requestMIDIAccess() settles: the rest of init(), which takes the first
\* port listed, and then the rest of a selectDevice that called it
AccessSettled(c, granted) ==
    /\ c \in outPending
    /\ outPending' = outPending \ {c}
    /\ outAccess' = (outAccess \/ granted)
    /\ LET initOk == granted /\ outHost.listed /= {}
           found == c.op = "init" \/ c.deviceId \in outHost.listed
       IN /\ outputDevice' = IF ~initOk THEN outputDevice
                             ELSE IF c.op = "selectDevice" /\ found THEN c.deviceId
                             ELSE FirstOutput(outHost.listed)
          /\ midiOutLast' = MidiOutStep("settle", 0, 0, initOk /\ found)
    /\ outSent' = << >>
    /\ UNCHANGED <<activeNotes, outHost, outTimers,
                   coreVars, midiVars, handVars, outVars, mathVars>>

\* playNote(note, duration, velocity): the note-on now, the note-off deferred
PlayNoteOut(note, duration, velocity) ==
    /\ midiOutLast.played < MaxPlayed
    /\ LET id == midiOutLast.played + 1
       IN /\ IF outputDevice = Null
             THEN /\ outSent' = << >>
                  /\ outTimers' = outTimers
             ELSE /\ outSent' = <<Message(outputDevice, StatusNoteOn, note,
                                          VelocityValue(velocity))>>
                  /\ outTimers' = outTimers \cup
                        {[note |-> note, id |-> id, released |-> FALSE,
                          on |-> outputDevice, due |-> duration]}
          /\ midiOutLast' = [MidiOutStep("playNote", note, id, TRUE) EXCEPT
                               !.duration = duration, !.velocity = velocity]
    /\ UNCHANGED <<outputDevice, activeNotes, outAccess, outHost, outPending,
                   coreVars, midiVars, handVars, outVars, mathVars>>

\* time passes: every deferred call is one tick nearer; a call that is due
\* runs before more time passes
Tick ==
    /\ outTimers /= {}
    /\ \A t \in outTimers : t.due > 0
    /\ outTimers' = {[t EXCEPT !.due = @ - 1] : t \in outTimers}
    /\ outSent' = << >>
    /\ midiOutLast' = MidiOutStep("tick", 0, 0, TRUE)
    /\ UNCHANGED <<outputDevice, activeNotes, outAccess, outHost, outPending,
                   coreVars, midiVars, handVars, outVars, mathVars>>

\* a deferred call of playNote runs: this.outputDevice.send([0x80, note, 0]),
\* with this.outputDevice read when it runs
TimerFires(t) ==
    /\ t \in outTimers
    /\ t.due = 0
    /\ outTimers' = outTimers \ {t}
    /\ outSent' = <<Message(outputDevice, StatusNoteOff, t.note, Num(0))>>
    /\ midiOutLast' = [MidiOutStep("timer", t.note, t.id, TRUE) EXCEPT
                          !.on = t.on, !.released = t.released]
    /\ UNCHANGED <<outputDevice, activeNotes, outAccess, outHost, outPending,
                   coreVars, midiVars, handVars, outVars, mathVars>>

\* triggerNote(note, velocity)
TriggerNoteOut(note, velocity) ==
    /\ IF outputDevice = Null
       THEN /\ outSent' = << >>
            /\ activeNotes' = activeNotes
       ELSE /\ outSent' = <<Message(outputDevice, StatusNoteOn, note,
                                    VelocityValue(velocity))>>
            /\ activeNotes' = activeNotes \cup {note}
    /\ midiOutLast' = [MidiOutStep("triggerNote", note, 0, TRUE) EXCEPT
                          !.velocity = velocity]
    /\ UNCHANGED <<outputDevice, outAccess, outHost, outPending, outTimers,
                   coreVars, midiVars, handVars, outVars, mathVars>>

\* releaseNote(note)
ReleaseNoteOut(note) ==
    /\ IF outputDevice = Null
       THEN /\ outSent' = << >>
            /\ activeNotes' = activeNotes
            /\ outTimers' = outTimers
       ELSE /\ outSent' = <<Message(outputDevice, StatusNoteOff, note, Num(0))>>
            /\ activeNotes' = activeNotes \ {note}
            /\ outTimers' = TimersAfterRelease(outTimers, note)
    /\ midiOutLast' = MidiOutStep("releaseNote", note, 0, TRUE)
    /\ UNCHANGED <<outputDevice, outAccess, outHost, outPending,
                   coreVars, midiVars, handVars, outVars, mathVars>>

\* new MidiOutput() on a host with or without the MIDI API and any ports
InitMidiOut ==
    /\ CoreIdle
    /\ MidiIdle /\ HandIdle /\ OutIdle /\ MathIdle
    /\ outputDevice = Null
    /\ activeNotes = {}
    /\ outAccess = FALSE
    /\ outHost \in [api : BOOLEAN, listed : SUBSET OutDevices]
    /\ outPending = {}
    /\ outTimers = {}
    /\ outSent = << >>
    /\ midiOutLast = [note |-> 0, velocity |-> Num(0), op |-> "new", id |-> 0, ok |-> TRUE,
                      timers |-> {}, released |-> FALSE, played |-> 0,
                      duration |-> 0, on |-> Null]

TimerRuns == \E t \in outTimers : TimerFires(t)

NextMidiOut ==
    \/ InitMidiOutput
    \/ \E deviceId \in DeviceIdArgs : SelectDevice(deviceId)
    \/ \E c \in outPending : \E granted \in BOOLEAN : AccessSettled(c, granted)
    \/ \E note \in OutNotes : \E duration \in NoteDurations :
          \E velocity \in Velocities : PlayNoteOut(note, duration, velocity)
    \/ Tick
    \/ TimerRuns
    \/ \E note \in OutNotes : \E velocity \in Velocities : TriggerNoteOut(note, velocity)
    \/ \E note \in OutNotes : ReleaseNoteOut(note)

SpecMidiOut == InitMidiOut /\ [][NextMidiOut]_vars

\* the timer clock runs and a deferred call that is due is run
SpecMidiOutFair == SpecMidiOut /\ WF_vars(Tick) /\ WF_vars(TimerRuns)

InitMath == CoreIdle /\ ExtIdle

NextMath ==
    \E value \in MapValues : \E inMin \in MapValues : \E inMax \in MapValues :
        \E outMin \in MapValues : \E outMax \in MapValues :
            CallMap(value, inMin, inMax, outMin, outMax)

SpecMath == InitMath /\ [][NextMath]_vars

----------------------------------------------------------------------------
(* Adapter objects used directly: new, init(), cleanup() *)

\* a cleanup() that calls stop(), close() and removeChild() without testing
\* that the handle is set
CleanupDerefsUnguarded(a) ==
    CASE a.kind = "mediapipe" -> {"camera", "hands"} \cup Surfaces
      [] a.kind = "midi" -> {"connectedInputs"}
      [] OTHER -> {"listeners"}

\* the handles cleanup() calls a method of: the camera, the tracker and each
\* surface only inside the test that it is set, the port map only when
\* midiAccess is set, the listener array always
CleanupDerefs(a) ==
    CASE a.kind = "mediapipe" -> {h \in {"camera", "hands"} : a[h]} \cup a.surfaces
      [] a.kind = "midi" -> IF a.midiAccess THEN {"connectedInputs"} ELSE {}
      [] OTHER -> {"listeners"}

\* the handles of an adapter object that are not null: the containers its
\* constructor makes, and what init() has set so far
HandlesSet(a) ==
    {"listeners", "connectedInputs"}
        \cup {h \in {"camera", "hands"} : a[h]} \cup a.surfaces

\* cleanup() raises a TypeError: it calls a method of a handle that is null
CleanupThrows(a) == CleanupDerefs(a) \ HandlesSet(a) /= {}

\* the points at which init() stops: it throws at the test for the host
\* facility, at `new Hands`, at `new Camera`, or it reaches its await
InitSteps == {"library", "tracker", "camera", "start"}

\* what the last call left of adapter i, for a later call to compare with
Before(i) ==
    [registered |-> registered, portHandler |-> portHandler, adapter |-> inst[i]]

\* the application constructs an adapter object itself
Construct(kind, cfg) ==
    /\ Len(inst) < MaxInst
    /\ LET r == CASE kind = "keyboard" -> NewKeyboardInput(St, cfg)
                  [] kind = "mouse" -> NewMouseInput(St, cfg)
                  [] OTHER -> [St EXCEPT !.inst = Append(@, NewAdapter(kind, cfg)),
                                         !.made = Len(inst) + 1]
       IN /\ Commit(r)
          /\ last' = Called("new", kind, r)
    /\ fired' = {}
    /\ UNCHANGED <<ports, host, busVars, kbVars, ptrVars, extVars>>

\* init() of a constructed MIDI or hand-tracking adapter, up to its throw or
\* its first await; the catch block of MediaPipeInput.init runs cleanup()
BeginInit(i, step) ==
    /\ i \in DOMAIN inst
    /\ inst[i].phase = "constructed"
    /\ inst[i].kind = "midi" => step \in {"library", "start"} /\ (step = "library" <=> ~host.midiApi)
    /\ inst[i].kind = "mediapipe" => (step = "library" <=> ~host.handsLib)
    /\ LET st == [St EXCEPT !.made = i]
           reached ==
               IF inst[i].kind = "midi" THEN st
               ELSE [st EXCEPT
                       !.inst[i].surfaces = IF step = "library" THEN {} ELSE Surfaces,
                       !.inst[i].hands = step \in {"camera", "start"},
                       !.inst[i].camera = (step = "start")]
           r == IF step = "start"
                THEN [reached EXCEPT !.inst[i].phase = "pending"]
                ELSE IF inst[i].kind = "midi"
                     THEN [reached EXCEPT !.inst[i].phase = "failed", !.threw = TRUE,
                                          !.error = MidiInitFailure("api")]
                     ELSE IF CleanupThrows(reached.inst[i])
                          THEN [reached EXCEPT !.inst[i].phase = "failed",
                                               !.threw = TRUE, !.error = TypeError]
                          ELSE [Cleanup(reached, i) EXCEPT
                                  !.inst[i].phase = "failed", !.threw = TRUE,
                                  !.error = IF step = "library"
                                            THEN "MediaPipe Hands library not loaded"
                                            ELSE HostRejection]
       IN /\ Commit(r)
          /\ last' = [Called("init", inst[i].kind, r) EXCEPT !.pre = Before(i)]
    /\ fired' = {}
    /\ UNCHANGED <<ports, host, busVars, kbVars, ptrVars, extVars>>

\* requestMIDIAccess() settles: the rest of MidiInput.init
MidiInitSettled(i, granted) ==
    /\ i \in DOMAIN inst
    /\ inst[i].kind = "midi" /\ inst[i].phase = "pending"
    /\ LET st == [St EXCEPT !.made = i]
           connected == [st EXCEPT !.inst[i].midiAccess = TRUE,
                                   !.inst[i].connectedInputs = @ \cup ports,
                                   !.portHandler = @ \cup {<<i, p>> : p \in ports},
                                   !.stateHandler = @ \cup {i}]
           r == IF ~granted
                THEN [st EXCEPT !.inst[i].phase = "failed", !.threw = TRUE,
                                !.error = MidiInitFailure("request")]
                ELSE IF ports = {}
                     THEN [connected EXCEPT !.inst[i].phase = "failed", !.threw = TRUE,
                                            !.error = MidiInitFailure("ports")]
                     ELSE [connected EXCEPT !.inst[i].phase = "ready"]
       IN /\ Commit(r)
          /\ last' = [Called("settle", "midi", r) EXCEPT !.pre = Before(i)]
    /\ fired' = {}
    /\ UNCHANGED <<ports, host, busVars, kbVars, ptrVars, extVars>>

\* camera.start() settles: init returns, or its catch block runs cleanup()
CameraStartSettled(i, started) ==
    /\ i \in DOMAIN inst
    /\ inst[i].kind = "mediapipe" /\ inst[i].phase = "pending"
    /\ LET st == [St EXCEPT !.made = i]
           r == IF started
                THEN [st EXCEPT !.inst[i].phase = "ready"]
                ELSE IF CleanupThrows(inst[i])
                     THEN [st EXCEPT !.inst[i].phase = "failed", !.threw = TRUE,
                                     !.error = TypeError]
                     ELSE [Cleanup(st, i) EXCEPT !.inst[i].phase = "failed",
                                                 !.threw = TRUE,
                                                 !.error = HostRejection]
       IN /\ Commit(r)
          /\ last' = [Called("settle", "mediapipe", r) EXCEPT !.pre = Before(i)]
    /\ fired' = {}
    /\ UNCHANGED <<ports, host, busVars, kbVars, ptrVars, extVars>>

\* the application calls cleanup() on an adapter object, in whatever state it
\* is; an init() that is waiting at its await goes on waiting
CleanupCall(i) ==
    /\ i \in DOMAIN inst
    /\ LET st == [St EXCEPT !.made = i]
           r == IF CleanupThrows(inst[i])
                THEN [st EXCEPT !.threw = TRUE, !.error = TypeError]
                ELSE [Cleanup(st, i) EXCEPT
                        !.inst[i].phase = IF inst[i].phase = "pending"
                                          THEN "pending" ELSE "cleaned"]
       IN /\ Commit(r)
          /\ last' = [Called("cleanup", inst[i].kind, r) EXCEPT
                        !.pre = Before(i),
                        !.again = (last.inst = i /\ last.cleanups > 0)]
    /\ fired' = {}
    /\ UNCHANGED <<ports, host, busVars, kbVars, ptrVars, extVars>>

\* no adapter object yet, on a page whose host facilities are any combination
InitTeardown ==
    /\ BusIdle
    /\ KbIdle
    /\ PtrIdle
    /\ ExtIdle
    /\ activeInputs = << >>
    /\ inputModules = [k \in Kinds |-> Null]
    /\ inst = << >>
    /\ registered = {}
    /\ stateHandler = {}
    /\ portHandler = {}
    /\ ports \in SUBSET Ports
    /\ host \in [midiApi : BOOLEAN, handsLib : BOOLEAN]
    /\ fired = {}
    /\ last = [inst |-> 0, cleanups |-> 0, threw |-> FALSE, error |-> NoError, op |-> "none",
               pre |-> [registered |-> {},
                        portHandler |-> {}, adapter |-> NewAdapter("none", "default")],
               arg |-> "none",
               revoked |-> {}, again |-> FALSE]

NextTeardown ==
    \/ \E kind \in Kinds : \E cfg \in ConfigsOf(kind) : Construct(kind, cfg)
    \/ \E i \in 1..MaxInst : \E step \in InitSteps : BeginInit(i, step)
    \/ \E i \in 1..MaxInst : \E granted \in BOOLEAN : MidiInitSettled(i, granted)
    \/ \E i \in 1..MaxInst : \E started \in BOOLEAN : CameraStartSettled(i, started)
    \/ \E i \in 1..MaxInst : CleanupCall(i)
    \/ \E p \in Ports : PortConnect(p)
    \/ \E p \in Ports : PortDisconnect(p)

SpecTeardown == InitTeardown /\ [][NextTeardown]_vars

NextBus ==
    \/ \E t \in EventTypes : \E l \in ListenerIds : AddEventListener(t, l)
    \/ \E t \in EventTypes : \E l \in ListenerIds : RemoveEventListener(t, l)
    \/ \E t \in EventTypes : \E script \in Scripts :
          EmitMusicalEvent(t, script)

SpecBus == InitBus /\ [][NextBus]_vars

----------------------------------------------------------------------------
(* Properties of the InputManager lifecycle (checked under Spec) *)

\* instance i still has something attached through which the host can call it
Attached(i) ==
    \/ \E r \in registered : r[1] = i
    \/ i \in stateHandler
    \/ \E h \in portHandler : h[1] = i
    \/ inst[i].camera /\ inst[i].hands

\* the kind named by the last call had a live adapter when the call was made
WasLive ==
    /\ last.arg \in Kinds
    /\ last.pre.inputModules[last.arg] /= Null

\* C1: enableInput is idempotent per kind: at any time at most one adapter
\* instance of a kind has listeners or hardware handlers attached, so one
\* hardware event reaches at most one handler of that kind.
C1_OneAttachedAdapterPerKind ==
    /\ \A k \in Kinds :
          Cardinality({i \in DOMAIN inst : inst[i].kind = k /\ Attached(i)}) <= 1
    /\ \A k \in Kinds :
          Cardinality({i \in fired : inst[i].kind = k}) <= 1

\* C2: a failed enableInput (thrown at the call or when its pending request
\* settles) leaves the active set and the slots as they were, and the adapter
\* object of the failed attempt keeps nothing attached: no DOM listener, no
\* port message handler, no state-change handler, no running camera/tracker.
C2_FailedEnableLeavesNothing ==
    /\ (last.op \in {"enableInput", "settle"} /\ last.threw) => Snapshot = last.pre
    /\ \A i \in DOMAIN inst : inst[i].phase = "failed" => ~Attached(i)

\* C3: once cleanup() of a keyboard or pointer adapter has returned, none of
\* its listeners is registered any more and no keyboard, focus, mouse or touch
\* event invokes a handler of that adapter.
C3_NoEventAfterCleanup ==
    \A i \in DOMAIN inst :
        (inst[i].kind \in {"keyboard", "mouse"} /\ inst[i].phase = "cleaned")
            => /\ \A r \in registered : r[1] /= i
               /\ i \notin fired

\* C3 witness: a keyboard adapter and a pointer adapter were both disabled
\* and a DOM event those adapters had listened for has been dispatched since.
C3_Witness ==
    /\ last.op = "event"
    /\ last.arg \in {"keydown", "keyup", "blur", "click", "touchstart"}
    /\ \E i \in DOMAIN inst : inst[i].kind = "keyboard" /\ inst[i].phase = "cleaned"
    /\ \E i \in DOMAIN inst : inst[i].kind = "mouse" /\ inst[i].phase = "cleaned"
                                 /\ inst[i].cfg = "trigger"

\* C4: when disableAll() returns, the active set is empty and every adapter
\* slot is null.
C4_DisableAllEmpties ==
    last.op = "disableAll" =>
        /\ activeInputs = << >>
        /\ \A k \in DOMAIN inputModules : inputModules[k] = Null

\* C4 witness: disableAll() has just returned from a state with two or more
\* active kinds, so entries were deleted from the set while it was iterated.
C4_Witness ==
    /\ last.op = "disableAll"
    /\ Len(last.pre.activeInputs) >= 2
    /\ last.cleanups >= 2

\* C5: disableInput(type) for a type with no live adapter (never enabled,
\* already disabled, or no known kind) changes neither the active set nor the
\* slots, calls no cleanup and does not throw; a disableAll() directly after a
\* disableAll() changes nothing.
C5_DisableNotLiveIsNoOp ==
    /\ (last.op = "disableInput" /\ ~WasLive) =>
          /\ Snapshot = last.pre
          /\ last.cleanups = 0
          /\ ~last.threw
    /\ last.again => (Snapshot = last.pre /\ last.cleanups = 0)

----------------------------------------------------------------------------
(* Properties of the event bus (checked under SpecBus) *)

\* C6: emitMusicalEvent invokes every listener that was registered
\* for the type at the moment of the call, each exactly once, in registration
\* order, whatever the listeners do to the list during the dispatch.
C6_DeliversToAllAtCall ==
    delivery.type /= "none" => delivery.delivered = delivery.atCall

----------------------------------------------------------------------------
(* Properties of the keyboard adapter (checked under SpecKeyboard) *)

Mapped(k) == k \in DOMAIN LayoutTable(layout)

\* C8: anti-repeat: for every mapped key, in every layout, the keydown events
\* that arrived for the key since its last keyup (or the last blur), however
\* many, have produced exactly one note-on (one trigger under drumpad).
C8_AntiRepeat ==
    \A k \in LowerKeys :
        Mapped(k) => run[k].ons = (IF run[k].downs >= 1 THEN 1 ELSE 0)

\* C8 witness: a second keydown for a mapped key has just been handled with
\* no keyup or blur since the first.
C8_Witness ==
    /\ kbEvent.name = "keydown"
    /\ Mapped(ToLowerCase(kbEvent.key))
    /\ run[ToLowerCase(kbEvent.key)].downs >= 2

\* C9: a keydown or keyup whose key is not in the active layout's table emits
\* nothing and leaves the held-key set as it was.
C9_UnmappedKeyIgnored ==
    (kbEvent.name \in {"keydown", "keyup"} /\ ~Mapped(ToLowerCase(kbEvent.key)))
        => (emitted = << >> /\ keysPressed = heldBefore)

\* C9 witness: an unmapped key was released, after being pressed, while a
\* mapped key is held.
C9_Witness ==
    /\ kbEvent.name = "keyup"
    /\ ~Mapped(ToLowerCase(kbEvent.key))
    /\ keysPressed /= << >>

\* C10: under piano and chromatic, a blur emits exactly one note-off for each
\* key that was held, with that key's mapped note, emits nothing else, and
\* leaves the held-key set empty.
C10_BlurReleasesHeldKeys ==
    (kbEvent.name = "blur" /\ layout /= "drumpad") =>
        /\ keysPressed = << >>
        /\ Len(emitted) = Len(heldBefore)
        /\ \A k \in Range(heldBefore) :
              Cardinality({n \in DOMAIN emitted :
                  emitted[n] = [key |-> k, type |-> "note-off",
                                note |-> LayoutTable(layout)[k]]}) = 1

\* C10 witness: blur under piano with q and another key held: the note-off
\* for q carries note 60.
C10_Witness ==
    /\ kbEvent.name = "blur"
    /\ layout = "piano"
    /\ Len(heldBefore) >= 2
    /\ \E n \in DOMAIN emitted :
          emitted[n] = [key |-> "q", type |-> "note-off", note |-> 60]

\* the last event was a keydown that passed the handler's filters for a
\* mapped key that was not held
AcceptedPress ==
    /\ kbEvent.name = "keydown"
    /\ kbEvent.mod = "none"
    /\ kbEvent.tag \notin {"INPUT", "TEXTAREA"}
    /\ Mapped(ToLowerCase(kbEvent.key))
    /\ ToLowerCase(kbEvent.key) \notin Range(heldBefore)

\* C11: under the drumpad layout every handler emits only trigger events with
\* index in 0..15 (never note-on, never note-off): exactly one for an
\* accepted press of a key that was not held, none for any other keydown,
\* any keyup and any blur.
C11_DrumpadOnlyTriggers ==
    layout = "drumpad" =>
        /\ \A n \in DOMAIN emitted :
              emitted[n].type = "trigger" /\ emitted[n].note \in 0..15
        /\ Len(emitted) = (IF AcceptedPress THEN 1 ELSE 0)
        /\ \A k \in DOMAIN DrumpadLayout : DrumpadLayout[k] \in 0..15

\* C11 witness: under drumpad the window lost focus while two pad keys
\* were held.
C11_Witness ==
    /\ layout = "drumpad"
    /\ kbEvent.name = "blur"
    /\ Len(heldBefore) >= 2

\* C17: under piano and chromatic a note-off for a key is emitted only when
\* the key is in the held set, and for each key the emitted note-on and
\* note-off events alternate, starting with note-on, over any sequence of
\* keydown (plain, modifier chord, inside INPUT/TEXTAREA), keyup and blur.
C17_NoteOnOffAlternate ==
    layout /= "drumpad" =>
        /\ outOfTurn = {}
        /\ \A n \in DOMAIN emitted :
              emitted[n].type = "note-off" => emitted[n].key \in Range(heldBefore)

\* C18: after every blur and after every cleanup() the held-key set is empty.
C18_HeldSetEmptyAfterBlurOrDisable ==
    kbEvent.name \in {"blur", "cleanup"} => keysPressed = << >>

\* C19: a keydown with ctrl, meta or alt held emits nothing and leaves the
\* held-key set as it was, for every key and layout.
C19_ModifierKeydownIgnored ==
    (kbEvent.name = "keydown" /\ kbEvent.mod /= "none")
        => (emitted = << >> /\ keysPressed = heldBefore)

\* C19 witness: a keydown with a modifier held arrived in the page body for a
\* mapped key that was not held, while another key was held.
C19_Witness ==
    /\ kbEvent.name = "keydown"
    /\ kbEvent.mod /= "none"
    /\ kbEvent.tag = "BODY"
    /\ Mapped(ToLowerCase(kbEvent.key))
    /\ ToLowerCase(kbEvent.key) \notin Range(heldBefore)
    /\ heldBefore /= << >>

----------------------------------------------------------------------------
(* Properties of MIDI-in hot-plug and teardown (checked under Spec) *)

\* the last hardware event was a MIDI message on some port object
MidiArrived == last.op = "event" /\ last.arg \in {"midimessage", "stalemessage"}

\* C25: while a MIDI-in adapter is live every connected port is among its
\* connected inputs and has its message handler, so the port's messages reach
\* it; a port whose state changed to disconnected is no longer among the
\* connected inputs, no longer carries the adapter's handler, and a message
\* arriving on that port object invokes no handler of the adapter.
C25_HotPlugAttachAndDetach ==
    \A i \in DOMAIN inst : inst[i].kind = "midi" =>
        /\ inst[i].phase = "ready" =>
              \A p \in ports :
                  /\ p \in inst[i].connectedInputs
                  /\ <<i, p>> \in portHandler
        /\ (inst[i].phase = "ready" /\ last.op = "event" /\ last.arg = "midimessage")
              => i \in fired
        /\ \A p \in Ports \ ports :
              /\ p \notin inst[i].connectedInputs
              /\ <<i, p>> \notin portHandler
        /\ (last.op = "event" /\ last.arg = "stalemessage") => i \notin fired

\* C26: after cleanup() of a MIDI-in adapter no port carries its message
\* handler and no MIDI message on any port invokes it, whatever ports
\* connected or disconnected before the cleanup and whatever ports connect or
\* reconnect after it.
C26_NoMidiEventAfterCleanup ==
    \A i \in DOMAIN inst : (inst[i].kind = "midi" /\ inst[i].phase = "cleaned") =>
        /\ \A p \in Ports : <<i, p>> \notin portHandler
        /\ MidiArrived => i \notin fired

----------------------------------------------------------------------------
(* Properties of the pointer adapter (checked under SpecPointer) *)

\* v is a number in the closed interval [lo, hi]
InUnit(v) == v.k = "num" /\ Leq(Num(0), v) /\ Leq(v, Num(1))

IsMidiNote(v) == v.k = "num" /\ v.d = 1 /\ v.n \in 0..127

\* C7: every event the adapter emits has note an integer in 0..127 and
\* velocity, pressure and normalized coordinates in [0,1]; no such field is
\* undefined or NaN, for any pointer position, position 0 included.
C7_EmittedValuesInRange ==
    \A n \in DOMAIN ptrEmitted :
        LET ev == ptrEmitted[n]
        IN /\ "note" \in DOMAIN ev => IsMidiNote(ev.note)
           /\ "velocity" \in DOMAIN ev => InUnit(ev.velocity)
           /\ "pressure" \in DOMAIN ev => InUnit(ev.pressure)
           /\ ev.type = "continuous" => (InUnit(ev.x) /\ InUnit(ev.y))

\* the viewport position of the press the last event reports: the mouse
\* position, or the position of the first active touch
PressX == IF ptrEvent.hasTouches THEN ptrEvent.touches[1].clientX.n ELSE ptrEvent.clientX.n
PressY == IF ptrEvent.hasTouches THEN ptrEvent.touches[1].clientY.n ELSE ptrEvent.clientY.n

\* the last event was a press in trigger mode
TriggerPress == mouse.mode = "trigger" /\ ptrEvent.name \in {"click", "touchstart"}

\* clamp(floor(minNote + (x/W)*(maxNote-minNote)), minNote, maxNote) in integers
ExpectedNote(x) ==
    LET lo == mouse.minNote.n
        hi == mouse.maxNote.n
        raw == lo + ((x * (hi - lo)) \div ViewportWidth)
        atLeast == IF raw < lo THEN lo ELSE raw
    IN IF atLeast > hi THEN hi ELSE atLeast

\* the inverted vertical fraction 1 - y/H clamped to [0.2, 1.0]
ExpectedVelocity(y) ==
    LET inv == Rat(ViewportHeight - y, ViewportHeight)
    IN IF Leq(inv, Rat(2, 10)) THEN Rat(2, 10) ELSE IF Leq(Num(1), inv) THEN Num(1) ELSE inv

\* C13: in trigger mode a press at (x, y) in a viewport of width W and height
\* H emits note-on with note clamp(floor(minNote + (x/W)*(maxNote-minNote)),
\* minNote, maxNote) and velocity 1 - y/H clamped to [0.2, 1.0]; with the
\* default 48..84 a press at x/W = 1/2 gives note 66.
C13_TriggerNoteAndVelocity ==
    TriggerPress =>
        /\ Len(ptrEmitted) = 1
        /\ ptrEmitted[1].type = "note-on"
        /\ NumEq(ptrEmitted[1].note, Num(ExpectedNote(PressX)))
        /\ NumEq(ptrEmitted[1].velocity, ExpectedVelocity(PressY))
        /\ (mouse.minNote = Num(48) /\ mouse.maxNote = Num(84) /\ 2 * PressX = ViewportWidth)
              => NumEq(ptrEmitted[1].note, Num(66))

\* C20: in trigger mode every press (a click, or a touchstart) emits exactly
\* one note-on and nothing else; no handler of the mode ever emits note-off.
C20_TriggerOneNoteOnPerPress ==
    mouse.mode = "trigger" =>
        /\ \A n \in DOMAIN ptrEmitted : ptrEmitted[n].type = "note-on"
        /\ TriggerPress => Len(ptrEmitted) = 1
        /\ ~TriggerPress => ptrEmitted = << >>

\* C20 witness: a touch press was handled in trigger mode.
C20_Witness ==
    /\ TriggerPress
    /\ ptrEvent.name = "touchstart"
    /\ ptrEmitted /= << >>


\* C21: in continuous mode a move event emits one continuous event iff the
\* pointer is pressed (a press was handled and no release since), and nothing
\* while it is not; every continuous event has pressure 0.7; every press
\* emits one note-on with velocity 0.7.
C21_ContinuousMoveOnlyWhilePressed ==
    mouse.mode = "continuous" =>
        /\ ptrEvent.name \in MoveNames =>
              /\ pointerDown => (Len(ptrEmitted) = 1 /\ ptrEmitted[1].type = "continuous")
              /\ ~pointerDown => ptrEmitted = << >>
        /\ \A n \in DOMAIN ptrEmitted :
              ptrEmitted[n].type = "continuous" => ptrEmitted[n].pressure = Rat(7, 10)
        /\ ptrEvent.name \in PressNames =>
              /\ Len(ptrEmitted) = 1
              /\ ptrEmitted[1].type = "note-on"
              /\ ptrEmitted[1].velocity = Rat(7, 10)

\* C21 witness: a move was handled after a press and a release, and emitted nothing.
C21_Witness ==
    /\ mouse.mode = "continuous"
    /\ ptrEvent.name \in MoveNames
    /\ ~pointerDown
    /\ ptrEmitted = << >>

\* C21 witness of the other case: a move while pressed emitted a continuous event.
C21_WitnessPressed ==
    /\ mouse.mode = "continuous"
    /\ ptrEvent.name = "touchmove"
    /\ pointerDown
    /\ ptrEmitted /= << >>

\* C22: in xy-pad mode no handler emits note-on or note-off; every move emits
\* exactly one continuous event, with pressure 1.0 if the pointer is pressed
\* and 0.5 otherwise; press and release emit nothing.
C22_XYPadNeverEmitsNotes ==
    mouse.mode = "xy-pad" =>
        /\ \A n \in DOMAIN ptrEmitted : ptrEmitted[n].type \notin {"note-on", "note-off"}
        /\ ptrEvent.name \in MoveNames =>
              /\ Len(ptrEmitted) = 1
              /\ ptrEmitted[1].type = "continuous"
              /\ ptrEmitted[1].pressure = IF pointerDown THEN Num(1) ELSE Rat(5, 10)
        /\ ptrEvent.name \in PressNames \cup ReleaseNames => ptrEmitted = << >>

\* C22 witness: a move was handled in xy-pad mode while pressed.
C22_Witness ==
    /\ mouse.mode = "xy-pad"
    /\ ptrEvent.name \in MoveNames
    /\ pointerDown
    /\ ptrEmitted /= << >>

\* the coordinates of the first active touch if the event has one, else the
\* mouse coordinates
LogicalX == IF ptrEvent.hasTouches /\ ptrEvent.touches /= << >>
            THEN ptrEvent.touches[1].clientX ELSE ptrEvent.clientX
LogicalY == IF ptrEvent.hasTouches /\ ptrEvent.touches /= << >>
            THEN ptrEvent.touches[1].clientY ELSE ptrEvent.clientY

\* C23: every handled event that reports coordinates reports those of the
\* first active touch when it has one and the mouse clientX / clientY
\* otherwise (divided by the viewport size in a continuous event), also when
\* a coordinate is 0.
C23_PointerCoordinates ==
    \A n \in DOMAIN ptrEmitted :
        LET ev == ptrEmitted[n]
        IN /\ ev.type = "note-on" => (ev.x = LogicalX /\ ev.y = LogicalY)
           /\ ev.type = "continuous" =>
                 /\ ev.x = JsDiv(LogicalX, Num(ViewportWidth))
                 /\ ev.y = JsDiv(LogicalY, Num(ViewportHeight))


\* C12: for every three-byte message [status, d1, d2]: command 0x90 with
\* d2 > 0 emits one note-on with note d1, velocity d2/127 and the channel
\* status & 0x0f; 0x90 with d2 = 0 emits one note-off with note d1 and no
\* note-on; 0x80 emits one note-off with note d1; 0xB0 emits one
\* control-change with control d1 and value d2/127; any other status emits
\* nothing.
C12_MidiDecode ==
    Len(midiData) = 3 =>
        LET status == midiData[1]
            d1 == midiData[2]
            d2 == midiData[3]
            command == (status \div 16) * 16
            ev == midiEmitted[1]
        IN /\ Len(midiEmitted) <= 1
           /\ (command = 144 /\ d2 > 0) =>
                 /\ Len(midiEmitted) = 1
                 /\ ev.type = "note-on" /\ ev.note = d1
                 /\ NumEq(ev.velocity, Rat(d2, 127))
                 /\ ev.channel = status % 16
           /\ (command = 144 /\ d2 = 0) =>
                 (Len(midiEmitted) = 1 /\ ev.type = "note-off" /\ ev.note = d1)
           /\ command = 128 =>
                 (Len(midiEmitted) = 1 /\ ev.type = "note-off" /\ ev.note = d1)
           /\ command = 176 =>
                 /\ Len(midiEmitted) = 1
                 /\ ev.type = "control-change" /\ ev.control = d1
                 /\ NumEq(ev.value, Rat(d2, 127))
           /\ command \notin {144, 128, 176} => midiEmitted = << >>

\* C12 witness: the message [0x90, 60, 0] has been decoded.
C12_Witness ==
    /\ midiData = <<144, 60, 0>>
    /\ Len(midiEmitted) = 1

----------------------------------------------------------------------------
(* Properties of MusicMath.map (checked under SpecMath) *)

\* C16: map(5, 0, 10, 0, 100) is 50, and for a zero-width input range
\* (inMin = inMax) map returns outMin for every value, equal to inMin or not:
\* never NaN, never an infinity.
C16_MapDegenerateRange ==
    mapArgs /= << >> =>
        /\ mapArgs = <<Num(5), Num(0), Num(10), Num(0), Num(100)>>
              => NumEq(mapResult, Num(50))
        /\ mapArgs[2] = mapArgs[3] => mapResult = mapArgs[4]

----------------------------------------------------------------------------
(* Properties of hand tracking (checked under SpecHand) *)

\* how many events the last frame emitted for a fingertip
\* the last callback was a frame with a hand in it and onResults ran to its end
Processed == handLast.op = "frame" /\ ~handLast.threw /\ handFrame /= << >>

FiredFor(t) ==
    Cardinality({n \in DOMAIN handEmitted : handEmitted[n].fingerIndex = t})

\* C14: in cross mode a processed frame fires a fingertip, once, exactly when
\* the y stored for it is below lineY and its current y is at or above lineY;
\* a fingertip with no stored y (its first frame) does not fire.  With lineY =
\* 0.5, y going 0.3 -> 0.6 fires once and 0.6 -> 0.7 does not fire.
C14_CrossFiresOnRisingEdge ==
    (handCfg.triggerMode = "cross" /\ Processed) =>
        \A n \in DOMAIN handCfg.fingerTips :
            LET t == handCfg.fingerTips[n]
                before == prevBefore[t]
                now == handFrame[1][t].y
                rising == /\ before /= Undef
                          /\ now /= Undef
                          /\ Lt(before, handCfg.lineY)
                          /\ Leq(handCfg.lineY, now)
            IN /\ FiredFor(t) = (IF rising THEN 1 ELSE 0)
               /\ (handCfg.lineY = Rat(5, 10) /\ before = Rat(3, 10) /\ now = Rat(6, 10))
                     => FiredFor(t) = 1
               /\ (handCfg.lineY = Rat(5, 10) /\ before = Rat(6, 10) /\ now = Rat(7, 10))
                     => FiredFor(t) = 0

\* C14 witness: with lineY = 0.5 the index fingertip went from 0.3 to 0.6 and
\* a note was triggered, while the thumb tip, also watched, stayed below the line.
C14_Witness ==
    /\ handCfg.triggerMode = "cross"
    /\ handCfg.lineY = Rat(5, 10)
    /\ handCfg.fingerTips = <<4, 8>>
    /\ handFrame /= << >>
    /\ prevBefore[8] = Rat(3, 10) /\ handFrame[1][8].y = Rat(6, 10)
    /\ prevBefore[4] = Rat(6, 10) /\ handFrame[1][4].y = Rat(7, 10)
    /\ Len(handEmitted) = 1

\* the fingertips the configuration watches
Watched == Range(handCfg.fingerTips)

\* the landmark of fingertip t is in the hand of the last frame
Present(t) == handFrame[1][t] /= MissingLandmark

\* C27: in continuous mode every processed frame fires a watched fingertip,
\* once, exactly when its current y is at or below the line (y >= lineY),
\* also in the first frame in which the fingertip is observed.
C27_ContinuousFiresEveryFrame ==
    (handCfg.triggerMode = "continuous" /\ Processed) =>
        \A t \in Watched :
            Present(t) =>
                FiredFor(t) = (IF Leq(handCfg.lineY, handFrame[1][t].y) THEN 1 ELSE 0)

\* the note floor(minNote + (1 - x)*(maxNote - minNote)) for x = x.n / x.d
MirroredNote(x) ==
    handCfg.minNote.n
        + (((x.d - x.n) * (handCfg.maxNote.n - handCfg.minNote.n)) \div x.d)

\* the code's firing condition for fingertip t in the last frame
Fires(t) ==
    /\ Present(t)
    /\ prevBefore[t] /= Undef
    /\ Leq(handCfg.lineY, handFrame[1][t].y)
    /\ handCfg.triggerMode = "cross" => Lt(prevBefore[t], handCfg.lineY)

\* C28: the adapter emits note-on events only; every firing condition emits
\* exactly one, with velocity 0.7 and note floor(minNote + (1 - x)*(maxNote -
\* minNote)) for the fingertip's x, and minNote <= note <= maxNote.
C28_HandNoteOnOnly ==
    /\ \A n \in DOMAIN handEmitted :
          LET ev == handEmitted[n]
              expected == MirroredNote(handFrame[1][ev.fingerIndex].x)
          IN /\ ev.type = "note-on"
             /\ ev.velocity = Rat(7, 10)
             /\ NumEq(ev.note, Num(expected))
             /\ handCfg.minNote.n <= expected /\ expected <= handCfg.maxNote.n
    /\ Processed => \A t \in Watched : FiredFor(t) = (IF Fires(t) THEN 1 ELSE 0)
    /\ ~Processed => handEmitted = << >>

\* C28 witness: with the window 60..72 two fingertips fired in one frame, one
\* of them at the right edge of the mirrored image (note 72).
C28_Witness ==
    /\ Processed
    /\ handCfg.minNote = Num(60)
    /\ Len(handEmitted) = 2
    /\ \E n \in DOMAIN handEmitted : handEmitted[n].note = Num(72)
    /\ \E n \in DOMAIN handEmitted : handEmitted[n].note = Num(69)

\* C29: a frame callback delivered after cleanup() emits no event, raises no
\* error and leaves the adapter's state as cleanup() left it.
C29_FrameAfterCleanupIsNoOp ==
    (handLast.op = "frame" /\ handLast.torn) =>
        /\ handEmitted = << >>
        /\ ~handLast.threw
        /\ previousPositions = [t \in TipIndexes |-> Undef]

\* a frame with a hand in which a watched fingertip has no landmark emits
\* nothing for that fingertip, and onResults does not raise
MissingLandmarkDropped ==
    (handLast.op = "frame" /\ ~handLast.torn /\ handFrame /= << >>) =>
        \A t \in Watched :
            ~Present(t) => (FiredFor(t) = 0 /\ ~handLast.threw)

\* C24: a MIDI message with fewer than three data bytes emits no event,
\* whatever its status byte; a hand frame in which a watched fingertip's
\* landmark is missing emits nothing for that fingertip; neither raises.
C24_MalformedInputDropped ==
    /\ Len(midiData) < 3 => midiEmitted = << >>
    /\ MissingLandmarkDropped

----------------------------------------------------------------------------
(* Note events of the pointer adapter's continuous mode (checked under SpecPointer) *)

\* C39: in continuous mode note-on and note-off are emitted in turn, note-on
\* first: a release (mouseup, touchend) on the container when the latest press
\* or release there was not a press emits no note-off, and a press (mousedown,
\* touchstart) when the latest was a press emits no note-on.
C39_NoteOnOffAlternate ==
    mouse.mode = "continuous" =>
        /\ (ptrEvent.name \in ReleaseNames /\ ~downBefore) =>
              \A k \in DOMAIN ptrEmitted : ptrEmitted[k].type /= "note-off"
        /\ (ptrEvent.name \in PressNames /\ downBefore) =>
              \A k \in DOMAIN ptrEmitted : ptrEmitted[k].type /= "note-on"

----------------------------------------------------------------------------
(* Properties of failing and interleaved enables (checked under Spec) *)

\* C31: enabling MIDI fails with a cause the caller can tell apart: on a host
\* without requestMIDIAccess the call rejects with the "not supported" error
\* and no access request is made (the adapter never waits and holds no access
\* object); when access is granted and there is no input port the rejection is
\* the "No MIDI devices detected" error; and the two errors are different.
C31_MidiFailureCauses ==
    /\ (last.op = "enableInput" /\ last.arg = "midi" /\ ~host.midiApi) =>
          /\ last.threw
          /\ last.error = "Web MIDI API not supported in this browser"
          /\ inst[last.inst].phase = "failed"
          /\ ~inst[last.inst].midiAccess
    /\ (last.op = "settle" /\ last.arg = "midi" /\ inst[last.inst].midiAccess
          /\ ports = {}) =>
          /\ last.threw
          /\ last.error = "No MIDI devices detected"
    /\ MidiInitFailure("api") /= MidiInitFailure("ports")

\* C31 witness: access was granted on a host with no input port, and the
\* enable was rejected.
C31_Witness ==
    /\ last.op = "settle"
    /\ last.arg = "midi"
    /\ inst[last.inst].midiAccess
    /\ ports = {}
    /\ last.threw
    /\ last.error = MidiInitFailure("ports")

\* C35: in every state, for each of the four kinds, the kind is in
\* activeInputs exactly when its slot of inputModules holds an adapter: after
\* enableInput calls that returned and that threw, after disableInput and
\* disableAll, and while and after MIDI and hand-tracking enables wait.
C35_ActiveIffSlotHeld ==
    \A kind \in Kinds :
        kind \in Range(activeInputs) <=> Truthy(Lookup(inputModules, kind))

\* C35 witness: a MIDI enable settled and made the kind active after a
\* hand-tracking enable, called while the MIDI enable waited, had failed.
C35_Witness ==
    /\ last.op = "settle"
    /\ last.arg = "midi"
    /\ ~last.threw
    /\ "midi" \in Range(activeInputs)
    /\ \E i \in DOMAIN inst :
          i > last.inst /\ inst[i].kind = "mediapipe" /\ inst[i].phase = "failed"

\* C36: when disableInput(kind) or disableAll was called while an enableInput
\* of a MIDI or hand-tracking adapter was waiting, and enableInput(kind) was
\* not called after that, then once that enable has settled the kind is not
\* active and the adapter is not attached to hardware.
C36_DisableWinsOverPendingEnable ==
    \A i \in last.revoked :
        inst[i].phase /= "pending" =>
            /\ inst[i].kind \notin Range(activeInputs)
            /\ ~Attached(i)

----------------------------------------------------------------------------
(* Properties of cleanup() on adapter objects (checked under SpecTeardown) *)

\* adapter i as it is now, at the point of its init() it was at before the last call
Now(i) == [inst[i] EXCEPT !.phase = last.pre.adapter.phase]

\* C30: cleanup() of any adapter never raises, in whatever state the adapter
\* is: before init(), while init() waits, after init() failed at any step
\* (where the catch block's own cleanup() ran to its end), after it succeeded,
\* after an earlier cleanup(); and a cleanup() that directly follows a
\* cleanup() of the same adapter changes nothing of the adapter, of the DOM
\* listener registrations or of the port handlers.
C30_CleanupNeverRaisesAndRepeats ==
    /\ last.op = "cleanup" =>
          /\ ~last.threw
          /\ last.cleanups = 1
          /\ last.again =>
                /\ Now(last.inst) = last.pre.adapter
                /\ registered = last.pre.registered
                /\ portHandler = last.pre.portHandler
    /\ (last.op \in {"init", "settle"} /\ last.arg = "mediapipe" /\ last.threw) =>
          last.cleanups = 1

\* C30 witness: a hand-tracking adapter whose init() failed after the library
\* test (at the tracker, at the camera, or when camera.start() rejected) and
\* ran cleanup() in its catch block was cleaned up again by the application,
\* while another adapter has been cleaned up as well.
C30_Witness ==
    /\ last.op = "cleanup"
    /\ last.again
    /\ last.arg = "mediapipe"
    /\ last.pre.adapter.phase = "failed"
    /\ host.handsLib
    /\ \E i \in DOMAIN inst : i /= last.inst /\ inst[i].phase = "cleaned"

----------------------------------------------------------------------------
(* Properties of the Audio Output Manager (checked under SpecOutput) *)

\* C15: once setOutput calls have resolved, the engine B whose setOutput
\* resolved last is the one every later playNote, triggerNote and releaseNote
\* call is forwarded to, and no other engine is invoked; playNote does reach it.
C15_RoutesToLastSetOutput ==
    (outLast.op \in PlayMethods /\ outLast.resolved /= << >>) =>
        LET B == outLast.resolved[Len(outLast.resolved)]
        IN B \in OutTypes =>
            /\ \A f \in forwarded : f[1] = B
            /\ outLast.op = "playNote" => forwarded = {<<B, "playNote">>}

\* C15 witness: setOutput('webaudiofont', {instrument}) resolved, then
\* setOutput('tonejs') resolved, and playNote was called after that.
C15_Witness ==
    /\ outLast.op = "playNote"
    /\ outLast.resolved = <<"webaudiofont", "tonejs">>
    /\ outputs["webaudiofont"].ready
    /\ forwarded /= {}

\* the call of the last step is a setOutput whose promise resolved at that step
SetOutputResolved ==
    /\ outLast.op \in {"setOutput", "loaded", "reconfigured"}
    /\ outLast.ok
    /\ currentConfig.id = outLast.id

\* the call of the last step is a setOutput or loadOutput that rejected at that step
OutputCallRejected ==
    /\ outLast.op \in {"setOutput", "loadOutput", "loaded", "reconfigured"}
    /\ ~outLast.ok

\* C32: a setOutput or loadOutput with a type that is none of the four kinds
\* rejects, and a setOutput or loadOutput that rejects (at the call or when
\* what it waits for rejects) leaves currentOutput and currentConfig as they
\* were before that step, the note calls go to the engine they went to, and the
\* call is not started again by the manager.
C32_FailingCallLeavesOutput ==
    /\ (outLast.op \in {"setOutput", "loadOutput"} /\ outLast.type \notin OutTypes) =>
          ~outLast.ok
    /\ OutputCallRejected =>
          /\ currentOutput = outLast.pre.currentOutput
          /\ currentConfig = outLast.pre.currentConfig
          /\ \A c \in pendingSet : c.id /= outLast.id

\* C33: whenever setOutput(kind) resolves for one of the four kinds, the
\* engine in the slot of that kind has completed its initialisation (the Tone
\* engine started, the MIDI output has an output device), whatever setOutput
\* and loadOutput calls for that kind came before.
C33_ResolvedEngineInitialised ==
    (SetOutputResolved /\ outLast.type \in OutTypes) => outputs[outLast.type].ready

\* C37: when every setOutput call made so far has resolved, two or more of them,
\* currentOutput and currentConfig are the type and the config object of the
\* setOutput call issued last.
C37_LastIssuedWins ==
    (/\ outLast.latest.sets >= 2
     /\ Len(outLast.resolved) = outLast.latest.sets
     /\ \A c \in pendingSet : c.at = "loadOutput") =>
        /\ currentOutput = outLast.latest.type
        /\ currentConfig = [cfg |-> outLast.latest.cfg, id |-> outLast.latest.id]

----------------------------------------------------------------------------
(* Properties of the MIDI output engine (checked under SpecMidiOutFair) *)

\* floor(velocity * 127) for the velocities played
FloorOf127(velocity) ==
    CASE velocity = Rat(1, 2) -> Num(63)
      [] velocity = Rat(4, 5) -> Num(101)

\* the deferred calls without the note of whether the note was released
Unmarked(timers) == {[t EXCEPT !.released = FALSE] : t \in timers}

\* what playNote, the deferred call and releaseNote each send and leave
C34_Sends ==
    /\ (midiOutLast.op = "playNote" /\ outputDevice /= Null) =>
          /\ outSent = <<[data |-> <<144, midiOutLast.note,
                                     FloorOf127(midiOutLast.velocity)>>,
                          to |-> outputDevice]>>
          /\ outTimers = midiOutLast.timers \cup
                {[note |-> midiOutLast.note, id |-> midiOutLast.id,
                  released |-> FALSE, on |-> outputDevice, due |-> midiOutLast.duration]}
          /\ Cardinality(outTimers) = Cardinality(midiOutLast.timers) + 1
    /\ midiOutLast.op = "timer" =>
          /\ Len(outSent) = 1
          /\ outSent[1].data = <<128, midiOutLast.note, Num(0)>>
          /\ \E t \in midiOutLast.timers :
                t.id = midiOutLast.id /\ t.due = 0 /\ t.note = midiOutLast.note
    /\ (midiOutLast.op = "releaseNote" /\ outputDevice /= Null) =>
          /\ outSent = <<[data |-> <<128, midiOutLast.note, Num(0)>>,
                          to |-> outputDevice]>>
          /\ Unmarked(outTimers) = Unmarked(midiOutLast.timers)

\* C34: playNote with a device selected sends one note-on
\* [0x90, note, floor(velocity * 127)] at once and defers one call until the
\* duration has passed; that call does run, and sends one note-off
\* [0x80, note, 0]; releaseNote sends its own note-off and removes no deferred
\* call, so after a releaseNote the deferred note-off is still sent: twice in all.
C34_NoteOnThenDeferredNoteOff ==
    /\ []C34_Sends
    /\ \A id \in 1..MaxPlayed :
          (\E t \in outTimers : t.id = id)
              ~> (midiOutLast.op = "timer" /\ midiOutLast.id = id)

\* C34 witness: the deferred call of a playNote ran after a releaseNote of its
\* note had already sent a note-off.
C34_Witness ==
    /\ midiOutLast.op = "timer"
    /\ midiOutLast.released
    /\ Len(outSent) = 1
    /\ outSent[1].data[1] = 128

\* C38: the deferred note-off of a playNote is sent to the port its note-on
\* was sent to, also when selectDevice has changed the output device since.
C38_NoteOffToSameDevice ==
    midiOutLast.op = "timer" =>
        \A k \in DOMAIN outSent : outSent[k].to = midiOutLast.on

============================================================================
